---- MODULE Spec2Model ----
(***************************************************************************)
(* App Service observability agent: the guardrailed Log Analytics query    *)
(* (src/src/azure/log-analytics.ts) and the session context with its       *)
(* workspace-identifier resolver (src/src/context.ts, src/src/tools/       *)
(* index.ts).                                                              *)
(*                                                                         *)
(* Text is a sequence of tokens: one-character strings for punctuation and *)
(* white space, whole words for keywords, decimal numerals for numbers.    *)
(***************************************************************************)
EXTENDS Integers, Sequences, FiniteSets, TLC

VARIABLES
    now,        \* wall clock, ms (Date.now())
    qpc,        \* position of the query() call: "idle", "awaitBackend", "returned"
    qArgs,      \* arguments of the query() call
    qStart,     \* startTime captured at log-analytics.ts:43
    qCalls,     \* calls made to client.queryWorkspace, in order
    qAnswer,    \* what the backend answered to the last call (kind, status, number of rows)
    qResult,    \* the LogQueryResult returned, or NoResult
    env,            \* process.env: the three AZURE_* values, "" when unset
    heap,           \* the AppContext objects created so far; an object is its index
    currentContext, \* context.ts:14: the object currentContext refers to, 0 for null
    diagSettings,   \* metadata backend: the diagnostic settings of each app
    inv,            \* the tool invocations, in order of arrival
    kpc,        \* position of the getRecentLogs() call: "idle", "awaitList", "awaitFetch",
                \* "awaitFiles", "awaitRead", "returned"
    kArgs,      \* arguments of the getRecentLogs() call
    kCalls,     \* requests made to the Kudu site, in order
    kListing,   \* the listing last answered, in the order it was answered
    kRead,      \* the response text last received
    kContainer, \* containerResult, kudu.ts:181
    kResult,    \* the KuduLogsResult returned, or NoResult
    dpc,        \* position of the diagnose_deployment invocation: "idle", "awaitDeployments",
                \* "awaitDiag", "awaitResolve", "awaitPlatform", "awaitConsole", "awaitHttp",
                \* "awaitKudu", "done"
    dArgs,      \* its args object
    dLocals,    \* its local constants, tools/index.ts:904-951, 1046
    dQueries,   \* the logAnalytics.query calls it made, in order
    dResult     \* the text it returned, as lines

qvars == <<qpc, qArgs, qStart, qCalls, qAnswer, qResult>>
cvars == <<env, heap, currentContext, diagSettings, inv>>
kvars == <<kpc, kArgs, kCalls, kListing, kRead, kContainer, kResult>>
dvars == <<dpc, dArgs, dLocals, dQueries, dResult>>
vars == <<now, qvars, cvars, kvars, dvars>>

----------------------------------------------------------------------------
(* Bounds of the model *)

MaxQueryLen == 3
MaxInvocations == 3

----------------------------------------------------------------------------
(* Program constants, log-analytics.ts:10-12 *)

MAX_ROWS == 500
MAX_TIMERANGE_DAYS == 7
QUERY_TIMEOUT_MS == 30000

----------------------------------------------------------------------------
(* Text *)

Numerals == {"1", "7", "10", "500", "1000"}

NumVal(t) ==
    CASE t = "1" -> 1
      [] t = "7" -> 7
      [] t = "10" -> 10
      [] t = "500" -> 500
      [] t = "1000" -> 1000

\* `${n}` in a template literal: the decimal numeral of n
NumStr(n) == CHOOSE t \in Numerals : NumVal(t) = n

UpperLetters ==
    <<"A", "B", "C", "D", "E", "F", "G", "H", "I", "J", "K", "L", "M",
      "N", "O", "P", "Q", "R", "S", "T", "U", "V", "W", "X", "Y", "Z">>
LowerLetters ==
    <<"a", "b", "c", "d", "e", "f", "g", "h", "i", "j", "k", "l", "m",
      "n", "o", "p", "q", "r", "s", "t", "u", "v", "w", "x", "y", "z">>

\* String.prototype.toLowerCase, token by token
LowerTok(c) ==
    CASE c = "T" -> "t"
      [] c = "X" -> "x"
      [] c = "LIMIT" -> "limit"
      [] c = "Limit" -> "limit"
      [] c = "TAKE" -> "take"
      [] c = "Take" -> "take"
      [] OTHER -> IF \E i \in 1..26 : UpperLetters[i] = c
                  THEN LowerLetters[CHOOSE i \in 1..26 : UpperLetters[i] = c]
                  ELSE c

toLowerCase(s) == [i \in 1..Len(s) |-> LowerTok(s[i])]

\* String.prototype.includes
includes(s, sub) ==
    \E i \in 0..(Len(s) - Len(sub)) : \A j \in 1..Len(sub) : s[i + j] = sub[j]

RECURSIVE SeqsUpTo(_, _)
SeqsUpTo(S, n) ==
    IF n = 0 THEN {<<>>}
    ELSE LET shorter == SeqsUpTo(S, n - 1)
         IN  shorter \cup {Append(s, c) : s \in shorter, c \in S}

----------------------------------------------------------------------------
(* LogAnalyticsConnector.addRowLimit, log-analytics.ts:249-255 *)

LimitSuffix(limit) == <<"\n", "|", " ", "limit", " ", NumStr(limit)>>

HasLimitOrTake(query) ==
    LET lowerQuery == toLowerCase(query)
    IN  includes(lowerQuery, <<"|", " ", "limit">>) \/ includes(lowerQuery, <<"|", " ", "take">>)

\* the containment test done on the text as written, not on its lower-case form
addRowLimitCaseSensitive(query, limit) ==
    IF includes(query, <<"|", " ", "limit">>) \/ includes(query, <<"|", " ", "take">>)
    THEN query ELSE query \o LimitSuffix(limit)

addRowLimit(query, limit) ==
    IF HasLimitOrTake(query) THEN query ELSE query \o LimitSuffix(limit)

----------------------------------------------------------------------------
(* The structured backend behind client.queryWorkspace,                    *)
(* log-analytics.ts:66-71: what it can answer to a dispatched query.       *)

IsWs(c) == c \in {" ", "\n"}
IsRowCapKeyword(c) == LowerTok(c) \in {"limit", "take"}

\* position k holds a limit/take operator: a pipe before it, white space allowed between
PipeBefore(d, k) ==
    \E i \in 1..(k - 1) : d[i] = "|" /\ \A j \in (i + 1)..(k - 1) : IsWs(d[j])

\* ... and a number after it
IsRowCapClause(d, k) ==
    /\ IsRowCapKeyword(d[k])
    /\ PipeBefore(d, k)
    /\ k + 2 <= Len(d)
    /\ IsWs(d[k + 1])
    /\ d[k + 2] \in Numerals

RowCapClauses(d) == {k \in 1..Len(d) : IsRowCapClause(d, k)}

\* a limit/take keyword that is no complete operator is a syntax error
WellFormed(d) == \A k \in 1..Len(d) : IsRowCapKeyword(d[k]) => IsRowCapClause(d, k)

\* rows the backend may return: no more than any row cap of the query allows
RowCounts(d) ==
    {n \in {0, 1, MAX_ROWS - 1, MAX_ROWS, MAX_ROWS + 1} :
        \A k \in RowCapClauses(d) : n <= NumVal(d[k + 2])}

TableColumns == <<"TimeGenerated", "Message">>

BackendTable(n) ==
    [columnDescriptors |-> TableColumns,
     rows |-> [i \in 1..n |-> <<i, "m">>]]

\* queryWorkspace throws: network failure, authentication, a query the backend refuses
BackendExceptions(d) == {[message |-> "network error"]}

\* queryWorkspace returns a result with a status
BackendResults(d) ==
    {[message |-> m, status |-> "PartialFailure", tables |-> <<>>] : m \in {"", "partial"}}
    \cup (IF WellFormed(d)
          THEN {[message |-> "", status |-> "Success", tables |-> <<>>]}
               \cup {[message |-> "", status |-> "Success",
                      tables |-> <<BackendTable(n)>>] : n \in RowCounts(d)}
          ELSE {})

----------------------------------------------------------------------------
(* LogAnalyticsConnector.query, log-analytics.ts:38-126 *)

NoResult == [none |-> TRUE]
NoError == <<>>

NoAnswer == [kind |-> "none", status |-> "none", tables |-> 0, rows |-> 0]

\* what is remembered of a backend answer
AnswerOfResult(ans) ==
    [kind |-> "result", status |-> ans.status, tables |-> Len(ans.tables),
     rows |-> IF Len(ans.tables) > 0 THEN Len(ans.tables[1].rows) ELSE 0]
AnswerOfException(ans) == [kind |-> "throw", status |-> "none", tables |-> 0, rows |-> 0]

\* the inputs the query() call is tried on
ExampleQueries ==
    { <<"T", " ", "|", " ", "where", " ", "X", " ", ">", " ", "1">>,
      <<"T", " ", "|", " ", "take", " ", "10">>,
      <<"T", " ", "|", " ", "limit", " ", "1000">>,
      <<"T", " ", "|", " ", "Take", " ", "1000">>,
      <<"T", " ", "|", "take", " ", "10">>,
      <<"T", " ", "|", "\n", "LIMIT", " ", "10">> }

QueryAlphabet == {"T", "|", " ", "limit", "TAKE", "1000"}
Queries == SeqsUpTo(QueryAlphabet, MaxQueryLen) \cup ExampleQueries
TimeRanges == {60, MAX_TIMERANGE_DAYS * 24 * 60, MAX_TIMERANGE_DAYS * 24 * 60 + 1}
Workspaces == {"guidA"}
Elapsed == {0, 40}

maxMinutes == MAX_TIMERANGE_DAYS * 24 * 60

FailureResult(queryTimeMs, error) ==
    [success |-> FALSE, rowCount |-> 0, truncated |-> FALSE, columns |-> <<>>,
     rows |-> <<>>, queryTimeMs |-> queryTimeMs, error |-> error]

TimeRangeError ==
    <<"Time range exceeds maximum of ", NumStr(MAX_TIMERANGE_DAYS),
      " days. Use a shorter time range.">>

\* the ceiling itself rejected
ExceedsTimeRangeInclusive(timeRangeMinutes) == timeRangeMinutes >= maxMinutes

\* log-analytics.ts:47
ExceedsTimeRange(timeRangeMinutes) == timeRangeMinutes > maxMinutes

\* log-analytics.ts:78-85: one object per row, keyed by column name
RowObjects(table) ==
    LET columns == table.columnDescriptors
        cols == {columns[i] : i \in 1..Len(columns)}
        \* a later column of the same name overwrites an earlier one
        idx == [c \in cols |-> CHOOSE i \in 1..Len(columns) :
                      /\ columns[i] = c
                      /\ \A j \in 1..Len(columns) : columns[j] = c => j <= i]
    IN  [r \in 1..Len(table.rows) |-> [c \in cols |-> table.rows[r][idx[c]]]]

\* log-analytics.ts:90
Truncated(rows) == Len(rows) >= MAX_ROWS

\* the row count capped, the rows not
ResultOfStatusCappedCount(ans, queryTimeMs) ==
    IF ans.status = "Success" /\ Len(ans.tables) > 0
    THEN LET table == ans.tables[1]
             rows == RowObjects(table)
         IN  [success |-> TRUE,
              rowCount |-> IF Len(rows) > MAX_ROWS THEN MAX_ROWS ELSE Len(rows),
              truncated |-> Truncated(rows),
              columns |-> table.columnDescriptors, rows |-> rows,
              queryTimeMs |-> queryTimeMs, error |-> NoError]
    ELSE IF ans.status = "PartialFailure"
    THEN FailureResult(queryTimeMs,
            <<"Partial query failure: ", IF ans.message # "" THEN ans.message ELSE "Unknown error">>)
    ELSE [success |-> TRUE, rowCount |-> 0, truncated |-> FALSE, columns |-> <<>>,
          rows |-> <<>>, queryTimeMs |-> queryTimeMs, error |-> NoError]

\* log-analytics.ts:75-114: the result for a backend result with a status
ResultOfStatus(ans, queryTimeMs) ==
    IF ans.status = "Success" /\ Len(ans.tables) > 0
    THEN LET table == ans.tables[1]
             rows == RowObjects(table)
         IN  [success |-> TRUE, rowCount |-> Len(rows), truncated |-> Truncated(rows),
              columns |-> table.columnDescriptors, rows |-> rows,
              queryTimeMs |-> queryTimeMs, error |-> NoError]
    ELSE IF ans.status = "PartialFailure"
    THEN FailureResult(queryTimeMs,
            <<"Partial query failure: ", IF ans.message # "" THEN ans.message ELSE "Unknown error">>)
    ELSE [success |-> TRUE, rowCount |-> 0, truncated |-> FALSE, columns |-> <<>>,
          rows |-> <<>>, queryTimeMs |-> queryTimeMs, error |-> NoError]

\* log-analytics.ts:115-125: the catch block
ResultOfException(ans, queryTimeMs) == FailureResult(queryTimeMs, <<ans.message>>)

\* log-analytics.ts:43-71: the call up to its await
Query(workspaceId, kqlQuery, timeRangeMinutes) ==
    /\ qpc = "idle"
    /\ qArgs' = [workspaceId |-> workspaceId, kqlQuery |-> kqlQuery,
                 timeRangeMinutes |-> timeRangeMinutes]
    /\ qStart' = now
    /\ IF ExceedsTimeRange(timeRangeMinutes)
       THEN /\ qResult' = FailureResult(0, TimeRangeError)
            /\ qpc' = "returned"
            /\ UNCHANGED <<qCalls, qAnswer>>
       ELSE /\ qCalls' = Append(qCalls,
                    [workspaceId |-> workspaceId,
                     query |-> addRowLimit(kqlQuery, MAX_ROWS),
                     startTime |-> now - timeRangeMinutes * 60 * 1000,
                     endTime |-> now,
                     serverTimeoutInSeconds |-> QUERY_TIMEOUT_MS \div 1000])
            /\ qpc' = "awaitBackend"
            /\ UNCHANGED <<qResult, qAnswer>>
    /\ UNCHANGED <<now, cvars, kvars, dvars>>

\* log-analytics.ts:73-114: the backend answered with a result
QueryResolved ==
    /\ qpc = "awaitBackend"
    /\ \E ans \in BackendResults(qCalls[Len(qCalls)].query), d \in Elapsed :
          /\ now' = now + d
          /\ qAnswer' = AnswerOfResult(ans)
          /\ qResult' = ResultOfStatus(ans, now' - qStart)
    /\ qpc' = "returned"
    /\ UNCHANGED <<qArgs, qStart, qCalls, cvars, kvars, dvars>>

\* the exception of the backend call let through
QueryRejectedRethrown ==
    /\ qpc = "awaitBackend"
    /\ \E ans \in BackendExceptions(qCalls[Len(qCalls)].query), d \in Elapsed :
          /\ now' = now + d
          /\ qAnswer' = AnswerOfException(ans)
    /\ qpc' = "threw"
    /\ UNCHANGED <<qArgs, qStart, qCalls, qResult, cvars, kvars, dvars>>

\* log-analytics.ts:115-125: the backend call threw
QueryRejected ==
    /\ qpc = "awaitBackend"
    /\ \E ans \in BackendExceptions(qCalls[Len(qCalls)].query), d \in Elapsed :
          /\ now' = now + d
          /\ qAnswer' = AnswerOfException(ans)
          /\ qResult' = ResultOfException(ans, now' - qStart)
    /\ qpc' = "returned"
    /\ UNCHANGED <<qArgs, qStart, qCalls, cvars, kvars, dvars>>

QueryInit ==
    /\ now = 0
    /\ qpc = "idle"
    /\ qArgs = [workspaceId |-> "", kqlQuery |-> <<>>, timeRangeMinutes |-> 0]
    /\ qStart = 0
    /\ qCalls = <<>>
    /\ qAnswer = NoAnswer
    /\ qResult = NoResult

NextQuery ==
    \/ \E w \in Workspaces, q \in Queries, t \in TimeRanges : Query(w, q, t)
    \/ QueryResolved
    \/ QueryRejected



----------------------------------------------------------------------------
(* JavaScript values *)

Undefined == "undefined"
Null == "null"
NoPath == <<>>

\* truthiness of a string-valued or absent field
Truthy(v) == v \notin {Undefined, Null, ""}

\* a boolean as it is held in a field that may also be undefined
Bool(b) == IF b THEN "true" ELSE "false"

----------------------------------------------------------------------------
(* Response text of the Kudu site, kudu.ts *)

\* A text is a sequence of runs [ch, n]: the character ch repeated n times.
\* Ordinary characters are runs of one; a long log body is one long run.
Str(chars) == [i \in 1..Len(chars) |-> [ch |-> chars[i], n |-> 1]]
Fill(ch, n) == <<[ch |-> ch, n |-> n]>>

\* String.prototype.length
RECURSIVE Length(_)
Length(text) ==
    IF text = <<>> THEN 0
    ELSE IF Len(text) = 1 THEN text[1].n
    ELSE Length(SubSeq(text, 1, Len(text) \div 2))
         + Length(SubSeq(text, Len(text) \div 2 + 1, Len(text)))

\* text.slice(-count) for count > 0: the last count characters
RECURSIVE SliceTail(_, _)
SliceTail(text, count) ==
    IF text = <<>> \/ count <= 0 THEN <<>>
    ELSE LET last == text[Len(text)]
             front == SubSeq(text, 1, Len(text) - 1)
         IN  IF last.n >= count THEN Fill(last.ch, count)
             ELSE Append(SliceTail(front, count - last.n), last)

\* text.split('\n'): the lines of the two halves of the text, the last line of
\* the first half continued by the first line of the second
RECURSIVE Split(_)
Split(text) ==
    IF text = <<>> THEN <<<<>>>>
    ELSE IF Len(text) = 1
    THEN (IF text[1].ch = "\n" THEN [i \in 1..(text[1].n + 1) |-> <<>>] ELSE <<text>>)
    ELSE LET half == Len(text) \div 2
             front == Split(SubSeq(text, 1, half))
             back == Split(SubSeq(text, half + 1, Len(text)))
         IN  SubSeq(front, 1, Len(front) - 1)
             \o <<front[Len(front)] \o back[1]>>
             \o Tail(back)

WhiteSpace == {" ", "\t", "\r", "\n"}

\* line.trim() is truthy
NotBlank(line) == \E i \in 1..Len(line) : line[i].ch \notin WhiteSpace

\* the first count characters of a line, one string per character
RECURSIVE Prefix(_, _)
Prefix(line, count) ==
    IF line = <<>> \/ count <= 0 THEN <<>>
    ELSE IF Head(line).n >= count THEN [i \in 1..count |-> Head(line).ch]
    ELSE [i \in 1..Head(line).n |-> Head(line).ch] \o Prefix(Tail(line), count - Head(line).n)

\* the characters of a line with every run cut to at most cap characters
RECURSIVE Chars(_, _)
Chars(line, cap) ==
    IF line = <<>> THEN <<>>
    ELSE Prefix(<<Head(line)>>, cap) \o Chars(Tail(line), cap)

\* line.toLowerCase().includes(filter.toLowerCase()), kudu.ts:189, 217. A match
\* spans at most Len(filter) characters of any run, so runs are cut to that.
MatchesFilter(line, filter) ==
    includes(toLowerCase(Chars(line, Len(filter))), toLowerCase(filter))

\* `if (filter)`: an absent filter and the empty string filter nothing
ApplyFilter(lines, filter) ==
    IF filter = <<>> THEN lines
    ELSE SelectSeq(lines, LAMBDA line : MatchesFilter(line, filter))

\* the first elements kept instead of the last
SliceHead(s, start) ==
    SubSeq(s, 1, IF 0 - start > Len(s) THEN Len(s) ELSE 0 - start)

\* Array.prototype.slice(start)
SliceFrom(s, start) ==
    LET from == IF start < 0 THEN (IF Len(s) + start < 0 THEN 0 ELSE Len(s) + start)
                ELSE (IF start > Len(s) THEN Len(s) ELSE start)
    IN  SubSeq(s, from + 1, Len(s))

Digits == {"0", "1", "2", "3", "4", "5", "6", "7", "8", "9"}

\* kudu.ts:106: /^(\d{4}-\d{2}-\d{2}[T ]\d{2}:\d{2}:\d{2})/ matches the line
TimestampMatch(line) ==
    LET p == Prefix(line, 19)
    IN  /\ Len(p) = 19
        /\ \A i \in {1, 2, 3, 4, 6, 7, 9, 10, 12, 13, 15, 16, 18, 19} : p[i] \in Digits
        /\ p[5] = "-" /\ p[8] = "-"
        /\ p[11] \in {"T", " "}
        /\ p[14] = ":" /\ p[17] = ":"

----------------------------------------------------------------------------
(* KuduConnector, kudu.ts *)

\* descriptors in one listing
MaxDescriptors == 2

\* the byte cap getRecentLogs passes to readLogFile
LOG_FILE_MAX_BYTES == 100000

\* a KuduLogEntry (kudu.ts:8-14): href and path are the number of the log,
\* lastUpdated a time
Descriptors == [href : 1..MaxDescriptors, lastUpdated : 1..MaxDescriptors]

\* what a listing request can answer: descriptors with their times in any
\* order, each log numbered by its place in the answer
Listings ==
    {[i \in 1..Len(times) |-> [href |-> i, lastUpdated |-> times[i]]] :
        times \in SeqsUpTo(1..MaxDescriptors, MaxDescriptors)}

IsoLine ==
    Str(<<"2", "0", "2", "4", "-", "0", "1", "-", "0", "2", "T",
          "0", "3", ":", "0", "4", ":", "0", "5", " ", "u", "p">>)

\* the texts a log can hold: nothing, blank lines only, three lines with blank
\* ones between, a timestamped line, a body of exactly the byte cap, a body
\* two characters over it
\* the lines diagnose_deployment asks of the Kudu site when no workspace is
\* available, tools/index.ts:1046
FALLBACK_MAX_LINES == 100

\* a text of one line more than that: "1\n2\n3\n..."
ManyLines ==
    [i \in 1..(2 * (FALLBACK_MAX_LINES + 1)) |->
        IF i % 2 = 1 THEN [ch |-> ToString((i + 1) \div 2), n |-> 1]
        ELSE [ch |-> "\n", n |-> 1]]

Contents ==
    { <<>>,
      ManyLines,
      Str(<<" ", "\n", "\n", "\t">>),
      Str(<<"E", "r", "r", "\n", "o", "k", "\n", " ", "\n", "E", "R", "R", " ", "2", "\n">>),
      IsoLine \o Str(<<"\n", " ", "e", "r", "r">>),
      Fill("x", LOG_FILE_MAX_BYTES - 7) \o Str(<<"\n", "E", "r", "r", "\n", "o", "k">>),
      Fill("x", LOG_FILE_MAX_BYTES - 5) \o Str(<<"\n", "E", "r", "r", "\n", "o", "k">>) }

MaxLinesArgs == {0, 1, 2, 100}
NoFilter == <<>>
Filters == {NoFilter, <<"e", "r", "r">>, <<"O", "K">>}

KuduResult(success, entries, error) ==
    [success |-> success, entries |-> entries, error |-> error]

\* new Date().toISOString()
toISOString(ms) == <<"Date", ToString(ms)>>

\* kudu.ts:99-111: the entries made of a fetched live-stream text
ContainerEntries(content, maxLines) ==
    LET lines == SelectSeq(Split(content), NotBlank)
        recentLines == SliceFrom(lines, 0 - maxLines)
    IN  [i \in 1..Len(recentLines) |->
            [timestamp |-> IF TimestampMatch(recentLines[i])
                           THEN Prefix(recentLines[i], 19)
                           ELSE toISOString(now),
             content |-> recentLines[i]]]

\* logs.sort((a, b) => b.lastUpdated - a.lastUpdated), kudu.ts:88, 211: a
\* stable sort, latest first
RECURSIVE InsertByLastUpdated(_, _)
InsertByLastUpdated(sorted, d) ==
    IF sorted = <<>> THEN <<d>>
    ELSE IF Head(sorted).lastUpdated >= d.lastUpdated
    THEN <<Head(sorted)>> \o InsertByLastUpdated(Tail(sorted), d)
    ELSE <<d>> \o sorted

RECURSIVE SortByLastUpdated(_)
SortByLastUpdated(logs) ==
    IF logs = <<>> THEN <<>>
    ELSE InsertByLastUpdated(SortByLastUpdated(SubSeq(logs, 1, Len(logs) - 1)),
                             logs[Len(logs)])

\* the last descriptor taken instead of the first
oldestLog(logs) == logs[Len(logs)]

\* kudu.ts:91, 212: logs[0] of the sorted descriptors
recentLog(logs) == logs[1]

TruncationMark ==
    Str(<<"\n", ".", ".", ".", " ", "(", "t", "r", "u", "n", "c", "a", "t", "e", "d", ")">>)

\* readLogFile, kudu.ts:157-164, for a response text
readLogFile(content, maxBytes) ==
    IF Length(content) > maxBytes
    THEN SliceTail(content, maxBytes) \o TruncationMark
    ELSE content

\* kudu.ts:214-223: the entries made of the text readLogFile returned
FileEntries(content, maxLines, filter) ==
    LET lines == ApplyFilter(SelectSeq(Split(content), NotBlank), filter)
        kept == SliceFrom(lines, 0 - maxLines)
    IN  [i \in 1..Len(kept) |-> [timestamp |-> toISOString(now), content |-> kept[i]]]

\* kudu.ts:184-196: the filtered live-stream entries
FilteredEntries(entries, filter) ==
    IF filter = <<>> THEN entries
    ELSE SelectSeq(entries, LAMBDA e : MatchesFilter(e.content, filter))

\* a request to the Kudu site and, once it is answered, how: "failed", "empty"
\* (no descriptor, or no line that is not blank) or "ok"
KuduRequest(op, target) == [op |-> op, target |-> target, answer |-> "pending"]

\* the requests with the last one answered
Answered(calls, answer) == [calls EXCEPT ![Len(calls)].answer = answer]

ListingAnswer(logs) == IF Len(logs) = 0 THEN "empty" ELSE "ok"
TextAnswer(content) ==
    IF SelectSeq(Split(content), NotBlank) = <<>> THEN "empty" ELSE "ok"

\* getRecentLogs(appName, maxLines, filter) up to the first request,
\* kudu.ts:175-181, 78, 54-57
GetRecentLogsCall(maxLines, filter) ==
    /\ kpc = "idle"
    /\ kArgs' = [maxLines |-> maxLines, filter |-> filter]
    /\ kCalls' = <<KuduRequest("listContainerLogs", 0)>>
    /\ kpc' = "awaitList"
    /\ UNCHANGED <<kListing, kRead, kContainer, kResult>>

\* a getRecentLogs call made on its own
GetRecentLogs(maxLines, filter) ==
    /\ GetRecentLogsCall(maxLines, filter)
    /\ UNCHANGED <<now, qvars, cvars, dvars>>

\* the on-disk listing requested when the filter leaves no entry
ContainerDoneAfterFilter(containerResult, calls) ==
    /\ kContainer' = containerResult
    /\ IF containerResult.success
          /\ Len(FilteredEntries(containerResult.entries, kArgs.filter)) > 0
       THEN /\ kResult' = KuduResult(TRUE, FilteredEntries(containerResult.entries,
                                                           kArgs.filter), NoError)
            /\ kCalls' = calls
            /\ kpc' = "returned"
       ELSE /\ kCalls' = Append(calls, KuduRequest("listLogFiles", 0))
            /\ kpc' = "awaitFiles"
            /\ UNCHANGED kResult

\* kudu.ts:181-201: getContainerLogs has returned containerResult; either the
\* filtered entries are returned or the on-disk listing is requested
ContainerDone(containerResult, calls) ==
    /\ kContainer' = containerResult
    /\ IF containerResult.success /\ Len(containerResult.entries) > 0
       THEN /\ kResult' = KuduResult(TRUE, FilteredEntries(containerResult.entries,
                                                           kArgs.filter), NoError)
            /\ kCalls' = calls
            /\ kpc' = "returned"
       ELSE /\ kCalls' = Append(calls, KuduRequest("listLogFiles", 0))
            /\ kpc' = "awaitFiles"
            /\ UNCHANGED kResult

\* kudu.ts:58-66, 117-123: the live-stream listing fails
ContainerListFailed ==
    /\ kpc = "awaitList"
    /\ ContainerDone(KuduResult(FALSE, <<>>, <<"Failed to list container logs: ", "HTTP 500">>),
                     Answered(kCalls, "failed"))
    /\ UNCHANGED <<now, qvars, cvars, dvars, kArgs, kListing, kRead>>

\* kudu.ts:78-92: the live-stream listing answers
ContainerListed(logs) ==
    /\ kpc = "awaitList"
    /\ kListing' = logs
    /\ IF Len(logs) = 0
       THEN ContainerDone(KuduResult(TRUE, <<>>, NoError), Answered(kCalls, "empty"))
       ELSE /\ kCalls' = Append(Answered(kCalls, "ok"),
                                KuduRequest("fetch", recentLog(SortByLastUpdated(logs)).href))
            /\ kpc' = "awaitFetch"
            /\ UNCHANGED <<kContainer, kResult>>
    /\ UNCHANGED <<now, qvars, cvars, dvars, kArgs, kRead>>

\* kudu.ts:94-96, 117-123: the live-stream fetch fails
ContainerFetchFailed ==
    /\ kpc = "awaitFetch"
    /\ ContainerDone(KuduResult(FALSE, <<>>, <<"HTTP 500">>), Answered(kCalls, "failed"))
    /\ UNCHANGED <<now, qvars, cvars, dvars, kArgs, kListing, kRead>>

\* kudu.ts:98-116: the live-stream fetch answers
ContainerFetched(content) ==
    /\ kpc = "awaitFetch"
    /\ kRead' = content
    /\ ContainerDone(KuduResult(TRUE, ContainerEntries(content, kArgs.maxLines), NoError),
                     Answered(kCalls, TextAnswer(content)))
    /\ UNCHANGED <<now, qvars, cvars, dvars, kArgs, kListing>>

\* the on-disk listing's failure not caught
FilesListFailedRaised ==
    /\ kpc = "awaitFiles"
    /\ kCalls' = Answered(kCalls, "failed")
    /\ kpc' = "raised"
    /\ UNCHANGED <<now, qvars, cvars, dvars, kArgs, kListing, kRead, kContainer, kResult>>

\* kudu.ts:134-141, 229-231: the on-disk listing fails
FilesListFailed ==
    /\ kpc = "awaitFiles"
    /\ kCalls' = Answered(kCalls, "failed")
    /\ kResult' = kContainer
    /\ kpc' = "returned"
    /\ UNCHANGED <<now, qvars, cvars, dvars, kArgs, kListing, kRead, kContainer>>

\* kudu.ts:201-212: the on-disk listing answers
FilesListed(logFiles) ==
    /\ kpc = "awaitFiles"
    /\ kListing' = logFiles
    /\ IF Len(logFiles) = 0
       THEN /\ kResult' = KuduResult(TRUE, <<>>, NoError)
            /\ kpc' = "returned"
            /\ kCalls' = Answered(kCalls, "empty")
       ELSE /\ kCalls' = Append(Answered(kCalls, "ok"),
                                KuduRequest("readLogFile",
                                            recentLog(SortByLastUpdated(logFiles)).href))
            /\ kpc' = "awaitRead"
            /\ UNCHANGED kResult
    /\ UNCHANGED <<now, qvars, cvars, dvars, kArgs, kRead, kContainer>>

\* the on-disk read's failure returned as the result
FileReadFailedReported ==
    /\ kpc = "awaitRead"
    /\ kCalls' = Answered(kCalls, "failed")
    /\ kResult' = KuduResult(FALSE, <<>>, <<"Failed to read log file: ", "HTTP 500">>)
    /\ kpc' = "returned"
    /\ UNCHANGED <<now, qvars, cvars, dvars, kArgs, kListing, kRead, kContainer>>

\* kudu.ts:153-155, 165-169, 229-231: the on-disk read fails
FileReadFailed ==
    /\ kpc = "awaitRead"
    /\ kCalls' = Answered(kCalls, "failed")
    /\ kResult' = kContainer
    /\ kpc' = "returned"
    /\ UNCHANGED <<now, qvars, cvars, dvars, kArgs, kListing, kRead, kContainer>>

\* kudu.ts:157-164, 212-228: the on-disk read answers
FileRead(content) ==
    /\ kpc = "awaitRead"
    /\ kRead' = content
    /\ kResult' = KuduResult(TRUE,
                     FileEntries(readLogFile(content, LOG_FILE_MAX_BYTES),
                                 kArgs.maxLines, kArgs.filter),
                     NoError)
    /\ kCalls' = Answered(kCalls, TextAnswer(content))
    /\ kpc' = "returned"
    /\ UNCHANGED <<now, qvars, cvars, dvars, kArgs, kListing, kContainer>>

\* no getRecentLogs call under way
KuduIdle ==
    /\ kpc = "idle"
    /\ kArgs = [maxLines |-> 0, filter |-> NoFilter]
    /\ kCalls = <<>>
    /\ kListing = <<>>
    /\ kRead = <<>>
    /\ kContainer = NoResult
    /\ kResult = NoResult

----------------------------------------------------------------------------
(* Deployment diagnosis: classification and report, tools/index.ts:953-1058 *)

\* rows kept in one result set of a diagnosis
MaxDiagRows == 2

\* Message values of platform rows, one string per character
PlatformMessages ==
    { <<"S", "t", "a", "r", "t", "e", "d">>,
      <<"p", "r", "o", "b", "e", " ", "f", "a", "i", "l", "e", "d">>,
      <<"O", "O", "M", " ", "s", "t", "o", "p">>,
      <<"o", "k">> }

\* the words each test looks for, tools/index.ts:956-968, 1000-1004
StartupWords ==
    { <<"s", "t", "a", "r", "t">>, <<"p", "r", "o", "b", "e">>,
      <<"r", "u", "n", "n", "i", "n", "g">> }
TerminateWords == { <<"t", "e", "r", "m", "i", "n", "a", "t">>, <<"s", "t", "o", "p">> }
ErrorWords ==
    { <<"e", "r", "r", "o", "r">>, <<"f", "a", "i", "l">>, <<"c", "r", "a", "s", "h">>,
      <<"o", "o", "m">>, <<"m", "e", "m", "o", "r", "y">> }
AppErrorWords ==
    { <<"e", "r", "r", "o", "r">>, <<"e", "x", "c", "e", "p", "t", "i", "o", "n">>,
      <<"f", "a", "i", "l">> }

\* tools/index.ts:956-958: the test of startupEvents, on the Message as it is
IsStartupEvent(r) == \E w \in StartupWords : includes(r.Message, w)

\* tools/index.ts:959-965: the test of errorEvents, on the Message in lower case
IsErrorEvent(r) == \E w \in ErrorWords : includes(toLowerCase(r.Message), w)

\* tools/index.ts:966-968: the test of terminateEvents, on the Message as it is
IsTerminateEvent(r) == \E w \in TerminateWords : includes(r.Message, w)

\* tools/index.ts:1000-1004: the test of errorLogs
IsErrorLog(r) == \E w \in AppErrorWords : includes(toLowerCase(r.ResultDescription), w)

\* the rows of each tag, tools/index.ts:956-968, 1000-1004, 1022-1023
Classify(platformRows, consoleRows, httpRows) ==
    [startupEvents |-> SelectSeq(platformRows, IsStartupEvent),
     errorEvents |-> SelectSeq(platformRows, IsErrorEvent),
     terminateEvents |-> SelectSeq(platformRows, IsTerminateEvent),
     errorLogs |-> SelectSeq(consoleRows, IsErrorLog),
     errors |-> SelectSeq(httpRows, LAMBDA r : r.ScStatus >= 500),
     successful |-> SelectSeq(httpRows, LAMBDA r : r.ScStatus < 400)]

NoEvents == Classify(<<>>, <<>>, <<>>)

\* Array.prototype.slice(0, count)
SliceTo(s, count) == SubSeq(s, 1, IF count > Len(s) THEN Len(s) ELSE count)

\* A report is a sequence of lines, a line a sequence of strings; blank lines
\* and pictographs are left out and a backquote is written as a quote.
\* tools/index.ts:954-995
PlatformSection(rows, ev) ==
    <<<<"### Platform Events (", ToString(Len(rows)), " events)">>>>
    \o IF Len(rows) > 0
       THEN (IF Len(ev.errorEvents) > 0
             THEN <<<<"**Errors detected:**">>>>
                  \o [i \in 1..Len(SliceTo(ev.errorEvents, 5)) |->
                        <<"- '">> \o ev.errorEvents[i].Message \o <<"'">>]
             ELSE <<>>)
            \o (IF Len(ev.startupEvents) > 0
                THEN <<<<"**Startup sequence:**">>>>
                     \o [i \in 1..Len(SliceTo(ev.startupEvents, 5)) |->
                           <<"- ">> \o toISOString(ev.startupEvents[i].TimeGenerated)
                           \o <<": ">> \o ev.startupEvents[i].Message]
                ELSE <<>>)
            \o (IF Len(ev.terminateEvents) > 0
                THEN <<<<"**Container terminations:**">>>>
                     \o [i \in 1..Len(SliceTo(ev.terminateEvents, 3)) |->
                           <<"- ">> \o toISOString(ev.terminateEvents[i].TimeGenerated)
                           \o <<": ">> \o ev.terminateEvents[i].Message]
                ELSE <<>>)
       ELSE <<<<"_No platform events found in this window._">>>>

\* tools/index.ts:998-1017
ConsoleSection(rows, ev) ==
    <<<<"### Application Logs (", ToString(Len(rows)), " entries)">>>>
    \o IF Len(rows) > 0
       THEN IF Len(ev.errorLogs) > 0
            THEN <<<<"**Application errors:**">>>>
                 \o [i \in 1..Len(SliceTo(ev.errorLogs, 5)) |-> ev.errorLogs[i].ResultDescription]
            ELSE <<<<"No application errors detected.">>>>
       ELSE <<<<"_No console output in this window._">>>>

\* tools/index.ts:1020-1040
HttpSection(rows, ev) ==
    <<<<"### First HTTP Requests (", ToString(Len(rows)), " requests)">>>>
    \o IF Len(rows) > 0
       THEN (IF Len(ev.errors) > 0
             THEN <<<<"**HTTP 5xx errors:** ", ToString(Len(ev.errors))>>>>
                  \o [i \in 1..Len(SliceTo(ev.errors, 5)) |->
                        <<"- ", ToString(ev.errors[i].ScStatus), " ", ev.errors[i].CsMethod,
                          " ", ev.errors[i].CsUriStem, " (",
                          ToString(ev.errors[i].TimeTaken), "ms)">>]
             ELSE <<>>)
            \o (IF Len(ev.successful) > 0
                THEN <<<<"**Successful requests:** ", ToString(Len(ev.successful))>>,
                       <<"- First success: ", ev.successful[1].CsMethod, " ",
                         ev.successful[1].CsUriStem, " at ">>
                       \o toISOString(ev.successful[1].TimeGenerated)>>
                ELSE <<>>)
       ELSE <<<<"_No HTTP requests in this window (app may not have received traffic yet)._">>>>

\* a line of log text as strings, a run of n characters written ch{n}
LineText(line) ==
    [i \in 1..Len(line) |->
        IF line[i].n = 1 THEN line[i].ch
        ELSE line[i].ch \o "{" \o ToString(line[i].n) \o "}"]

\* tools/index.ts:1043-1050: the report without a workspace
FallbackSection(kuduLogs) ==
    <<<<"Log Analytics not configured. Limited diagnosis available.">>,
      <<"### Recent Container Logs">>>>
    \o IF Len(kuduLogs.entries) > 0
       THEN <<<<"'''">>>>
            \o [i \in 1..Len(SliceTo(kuduLogs.entries, 30)) |->
                    LineText(kuduLogs.entries[i].content)]
            \o <<<<"'''">>>>
       ELSE <<>>

\* tools/index.ts:1054-1056
SummarySection(windowMinutes, deployTime) ==
    <<<<"### Diagnosis Summary">>,
      <<"Analyzed ", ToString(windowMinutes), " minutes after deployment at ">>
      \o toISOString(deployTime) \o <<".">>,
      <<"Use 'correlate_events' with specific timestamps for deeper investigation.">>>>

\* the local constants of an invocation before any is assigned
NoLocals ==
    [context |-> 0, deploymentIndex |-> 0, windowMinutes |-> 0, deployments |-> <<>>,
     deployTime |-> 0,
     workspaceId |-> Undefined, path |-> NoPath,
     platformLogs |-> FailureResult(0, NoError), consoleLogs |-> FailureResult(0, NoError),
     httpLogs |-> FailureResult(0, NoError), events |-> NoEvents,
     kuduLogs |-> KuduResult(TRUE, <<>>, NoError)]

\* an args object without properties
EmptyArgs == [name \in {} |-> 0]

\* no diagnose_deployment invocation under way
DiagIdle ==
    /\ dpc = "idle"
    /\ dArgs = EmptyArgs
    /\ dLocals = NoLocals
    /\ dQueries = <<>>
    /\ dResult = <<>>

----------------------------------------------------------------------------
(* Session context, context.ts *)

TargetA == [subscriptionId |-> "subA", resourceGroup |-> "rgA", appName |-> "appA"]
TargetB == [subscriptionId |-> "subB", resourceGroup |-> "rgB", appName |-> "appB"]
Targets == {TargetA, TargetB}
Apps == {t.appName : t \in Targets}

Envs ==
    { [AZURE_SUBSCRIPTION_ID |-> "subA", AZURE_RESOURCE_GROUP |-> "rgA", AZURE_APP_NAME |-> "appA"],
      [AZURE_SUBSCRIPTION_ID |-> "subA", AZURE_RESOURCE_GROUP |-> "rgA", AZURE_APP_NAME |-> ""] }

\* an AppContext object holding the three identifying fields only
\* (context.ts:30, tools/index.ts:741-745)
NewContext(subscriptionId, resourceGroup, appName) ==
    [subscriptionId |-> subscriptionId, resourceGroup |-> resourceGroup, appName |-> appName,
     logAnalyticsWorkspaceId |-> Undefined, diagnosticsEnabled |-> Undefined]

\* any one of the three values taken as enough
EnvCompleteAny ==
    \/ Truthy(env.AZURE_SUBSCRIPTION_ID)
    \/ Truthy(env.AZURE_RESOURCE_GROUP)
    \/ Truthy(env.AZURE_APP_NAME)

\* context.ts:29
EnvComplete ==
    /\ Truthy(env.AZURE_SUBSCRIPTION_ID)
    /\ Truthy(env.AZURE_RESOURCE_GROUP)
    /\ Truthy(env.AZURE_APP_NAME)

\* getAppContext, context.ts:19-35: the object returned (0 for null) ...
getAppContext ==
    IF currentContext # 0 THEN currentContext
    ELSE IF EnvComplete THEN Len(heap) + 1
    ELSE 0

\* ... and the heap after the call: a context synthesized from the environment is stored
getAppContextHeap ==
    IF currentContext = 0 /\ EnvComplete
    THEN Append(heap, NewContext(env.AZURE_SUBSCRIPTION_ID, env.AZURE_RESOURCE_GROUP,
                                 env.AZURE_APP_NAME))
    ELSE heap

\* updateDiagnosticInfo, context.ts:47-52, on heap h with current object cur
updateDiagnosticInfo(h, cur, workspaceId, enabled) ==
    IF cur # 0
    THEN [h EXCEPT ![cur].logAnalyticsWorkspaceId = workspaceId,
                   ![cur].diagnosticsEnabled = enabled]
    ELSE h

----------------------------------------------------------------------------
(* Metadata backend, arm.ts *)

WorkspacePath(app) ==
    IF app = "appA"
    THEN <<"subscriptions", "subA", "resourceGroups", "rgA", "providers",
           "Microsoft.OperationalInsights", "workspaces", "wsA">>
    ELSE <<"subscriptions", "subB", "resourceGroups", "rgB", "providers",
           "Microsoft.OperationalInsights", "workspaces", "wsB">>

\* properties.customerId of a workspace resource
CustomerId(path) == IF path = WorkspacePath("appA") THEN "guidA" ELSE "guidB"

NoDiag == [enabled |-> FALSE, logAnalyticsWorkspaceId |-> NoPath]

\* arm.ts:116-144: the settings folded into a DiagnosticInfo, a later workspace
\* setting overwriting an earlier one
RECURSIVE FoldSettings(_, _)
FoldSettings(settings, result) ==
    IF settings = <<>> THEN result
    ELSE FoldSettings(Tail(settings),
            IF Head(settings).workspaceId # NoPath
            THEN [enabled |-> TRUE, logAnalyticsWorkspaceId |-> Head(settings).workspaceId]
            ELSE result)

\* ArmClient.getDiagnosticSettings, arm.ts:109-152: the answers it can give for
\* a context: the folded settings, or the catch block's answer when the list fails
getDiagnosticSettings(context) ==
    {FoldSettings(diagSettings[context.appName], NoDiag), NoDiag}

\* arm.ts:186: /workspaces\/([^/]+)/
MatchesWorkspace(path) ==
    \E i \in 1..(Len(path) - 1) : path[i] = "workspaces" /\ path[i + 1] # ""

\* ArmClient.resolveWorkspaceId, arm.ts:183-213: the customer id, or null when
\* the path does not match, the request fails or the answer carries none
resolveWorkspaceId(path) ==
    IF MatchesWorkspace(path) THEN {CustomerId(path), Null} ELSE {Null}

----------------------------------------------------------------------------
(* Tool invocations, tools/index.ts:721-1217, each split at its awaits *)

\* a new invocation record
Invocation(tool, ctx) ==
    [tool |-> tool,
     pc |-> "done",              \* "awaitDiag", "awaitResolve", "done"
     ctx |-> ctx,                \* the context object the invocation holds
     diag |-> NoDiag,            \* the DiagnosticInfo it received
     workspaceId |-> Undefined,  \* what getWorkspaceId returned to it
     cachedAtCall |-> Undefined, \* the identifier its context object held when it called getWorkspaceId
     metaCalls |-> 0,            \* metadata-backend calls it has made
     afterNone |-> FALSE,        \* it arrived after a resolver call that found no destination
     queried |-> Undefined,      \* the workspace its structured query was sent to
     response |-> "pending"]

CanArrive == Len(inv) < MaxInvocations

\* requireAppContext threw (context.ts:66-73); the call handler answers with the error
NoContextResponse == "Error: No App Service configured"

\* tools/index.ts:732-738
GetContext ==
    /\ CanArrive
    /\ heap' = getAppContextHeap
    /\ currentContext' = getAppContext
    /\ inv' = Append(inv, [Invocation("get_context", getAppContext) EXCEPT
                !.response = IF getAppContext = 0 THEN "No App Service configured."
                             ELSE "Current App Service"])
    /\ UNCHANGED <<now, qvars, kvars, dvars, env, diagSettings>>

\* tools/index.ts:740-748 with setAppContext, context.ts:40-42
SetContext(target) ==
    /\ CanArrive
    /\ heap' = Append(heap, NewContext(target.subscriptionId, target.resourceGroup,
                                       target.appName))
    /\ currentContext' = Len(heap) + 1
    /\ inv' = Append(inv, [Invocation("set_context", Len(heap) + 1) EXCEPT
                !.response = "Context set"])
    /\ UNCHANGED <<now, qvars, kvars, dvars, env, diagSettings>>

\* tools/index.ts:774-776: check_diagnostics up to its first await
CheckDiagnostics ==
    /\ CanArrive
    /\ heap' = getAppContextHeap
    /\ currentContext' = getAppContext
    /\ inv' = Append(inv,
          IF getAppContext = 0
          THEN [Invocation("check_diagnostics", 0) EXCEPT !.response = NoContextResponse]
          ELSE [Invocation("check_diagnostics", getAppContext) EXCEPT
                    !.pc = "awaitDiag", !.metaCalls = 1])
    /\ UNCHANGED <<now, qvars, kvars, dvars, env, diagSettings>>

\* tools/index.ts:776-787: getDiagnosticSettings answered
CheckDiagnosticsDiag(i) ==
    /\ inv[i].tool = "check_diagnostics"
    /\ inv[i].pc = "awaitDiag"
    /\ \E diag \in getDiagnosticSettings(heap[inv[i].ctx]) :
          IF diag.logAnalyticsWorkspaceId # NoPath
          THEN /\ inv' = [inv EXCEPT ![i].diag = diag, ![i].pc = "awaitResolve",
                                     ![i].metaCalls = @ + 1]
               /\ UNCHANGED heap
          ELSE /\ heap' = updateDiagnosticInfo(heap, currentContext, Undefined, Bool(FALSE))
               /\ inv' = [inv EXCEPT ![i].diag = diag, ![i].pc = "done",
                                     ![i].response = "Diagnostics"]
    /\ UNCHANGED <<now, qvars, kvars, dvars, env, currentContext, diagSettings>>

\* tools/index.ts:780-789: resolveWorkspaceId answered
CheckDiagnosticsResolved(i) ==
    /\ inv[i].tool = "check_diagnostics"
    /\ inv[i].pc = "awaitResolve"
    /\ \E workspaceGuid \in resolveWorkspaceId(inv[i].diag.logAnalyticsWorkspaceId) :
          /\ heap' = updateDiagnosticInfo(heap, currentContext,
                        IF Truthy(workspaceGuid) THEN workspaceGuid ELSE Undefined,
                        Bool(inv[i].diag.enabled))
          /\ inv' = [inv EXCEPT ![i].pc = "done", ![i].response = "Diagnostics"]
    /\ UNCHANGED <<now, qvars, kvars, dvars, env, currentContext, diagSettings>>

\* the tool's answer once getWorkspaceId has returned (tools/index.ts:796-804)
AfterWorkspaceId(r, workspaceId) ==
    IF Truthy(workspaceId)
    THEN [r EXCEPT !.pc = "done", !.workspaceId = workspaceId, !.queried = workspaceId,
                   !.response = "Query Results"]
    ELSE [r EXCEPT !.pc = "done", !.workspaceId = workspaceId,
                   !.response = "Error: Log Analytics not configured"]

\* an earlier resolver call for the same app looked up and found no destination
ResolverFoundNone(app) ==
    \E j \in 1..Len(inv) :
        /\ inv[j].tool = "query_logs"
        /\ inv[j].pc = "done"
        /\ inv[j].metaCalls = 1
        /\ inv[j].ctx # 0
        /\ heap[inv[j].ctx].appName = app

\* the cache never consulted
GetWorkspaceIdCallUncached(r, h) == [r EXCEPT !.pc = "awaitDiag", !.metaCalls = @ + 1]

\* a cached "not enabled" taken as the answer
GetWorkspaceIdCallNegativeCache(r, h) ==
    IF Truthy(h[r.ctx].logAnalyticsWorkspaceId)
    THEN AfterWorkspaceId(r, h[r.ctx].logAnalyticsWorkspaceId)
    ELSE IF h[r.ctx].diagnosticsEnabled = Bool(FALSE)
    THEN AfterWorkspaceId(r, Null)
    ELSE [r EXCEPT !.pc = "awaitDiag", !.metaCalls = @ + 1]

\* getWorkspaceId, tools/index.ts:1194-1201: the cache test and the first lookup
\* for the invocation record r holding context object r.ctx of heap h
GetWorkspaceIdCall(r, h) ==
    IF Truthy(h[r.ctx].logAnalyticsWorkspaceId)
    THEN AfterWorkspaceId(r, h[r.ctx].logAnalyticsWorkspaceId)
    ELSE [r EXCEPT !.pc = "awaitDiag", !.metaCalls = @ + 1]

\* tools/index.ts:793-795: query_logs up to its first await
QueryLogs ==
    /\ CanArrive
    /\ heap' = getAppContextHeap
    /\ currentContext' = getAppContext
    /\ inv' = Append(inv,
          IF getAppContext = 0
          THEN [Invocation("query_logs", 0) EXCEPT !.response = NoContextResponse]
          ELSE GetWorkspaceIdCall(
                  [Invocation("query_logs", getAppContext) EXCEPT
                      !.cachedAtCall = getAppContextHeap[getAppContext].logAnalyticsWorkspaceId,
                      !.afterNone = ResolverFoundNone(getAppContextHeap[getAppContext].appName)],
                  getAppContextHeap))
    /\ UNCHANGED <<now, qvars, kvars, dvars, env, diagSettings>>

\* getWorkspaceId, tools/index.ts:1201-1210: getDiagnosticSettings answered
GetWorkspaceIdDiag(i) ==
    /\ inv[i].tool = "query_logs"
    /\ inv[i].pc = "awaitDiag"
    /\ \E diag \in getDiagnosticSettings(heap[inv[i].ctx]) :
          IF ~diag.enabled \/ diag.logAnalyticsWorkspaceId = NoPath
          THEN inv' = [inv EXCEPT ![i] = AfterWorkspaceId([@ EXCEPT !.diag = diag], Null)]
          ELSE inv' = [inv EXCEPT ![i].diag = diag, ![i].pc = "awaitResolve",
                                  ![i].metaCalls = @ + 1]
    /\ UNCHANGED <<now, qvars, kvars, dvars, env, heap, currentContext, diagSettings>>

\* a failed translation written to the cache like a found identifier
GetWorkspaceIdResolvedWritesNone(i) ==
    /\ inv[i].tool = "query_logs"
    /\ inv[i].pc = "awaitResolve"
    /\ \E workspaceGuid \in resolveWorkspaceId(inv[i].diag.logAnalyticsWorkspaceId) :
          /\ heap' = updateDiagnosticInfo(heap, currentContext, workspaceGuid, Bool(TRUE))
          /\ inv' = [inv EXCEPT ![i] = AfterWorkspaceId(@, workspaceGuid)]
    /\ UNCHANGED <<now, qvars, kvars, dvars, env, currentContext, diagSettings>>

\* getWorkspaceId, tools/index.ts:1207-1216: resolveWorkspaceId answered
GetWorkspaceIdResolved(i) ==
    /\ inv[i].tool = "query_logs"
    /\ inv[i].pc = "awaitResolve"
    /\ \E workspaceGuid \in resolveWorkspaceId(inv[i].diag.logAnalyticsWorkspaceId) :
          /\ heap' = IF Truthy(workspaceGuid)
                     THEN updateDiagnosticInfo(heap, currentContext, workspaceGuid, Bool(TRUE))
                     ELSE heap
          /\ inv' = [inv EXCEPT ![i] = AfterWorkspaceId(@, workspaceGuid)]
    /\ UNCHANGED <<now, qvars, kvars, dvars, env, currentContext, diagSettings>>

\* the operator of the app adds a diagnostic setting that sends logs to a workspace
ConfigureDestination(app) ==
    /\ diagSettings[app] = <<>>
    /\ diagSettings' = [diagSettings EXCEPT ![app] = <<[workspaceId |-> WorkspacePath(app)]>>]
    /\ UNCHANGED <<now, qvars, kvars, dvars, env, heap, currentContext, inv>>

InitCtxVars ==
    /\ env \in Envs
    /\ heap = <<>>
    /\ currentContext = 0
    /\ diagSettings = [a \in Apps |-> <<>>]
    /\ inv = <<>>

InitCtx == QueryInit /\ KuduIdle /\ DiagIdle /\ InitCtxVars

NextCtx ==
    \/ GetContext
    \/ \E t \in Targets : SetContext(t)
    \/ CheckDiagnostics
    \/ QueryLogs
    \/ \E i \in 1..Len(inv) : CheckDiagnosticsDiag(i)
    \/ \E i \in 1..Len(inv) : CheckDiagnosticsResolved(i)
    \/ \E i \in 1..Len(inv) : GetWorkspaceIdDiag(i)
    \/ \E i \in 1..Len(inv) : GetWorkspaceIdResolved(i)
    \/ \E a \in Apps : ConfigureDestination(a)

SpecCtx == InitCtx /\ [][NextCtx]_vars

\* the query() call on its own: no session, no tool invocation
InitQuery ==
    /\ QueryInit
    /\ KuduIdle
    /\ DiagIdle
    /\ env = [AZURE_SUBSCRIPTION_ID |-> "", AZURE_RESOURCE_GROUP |-> "", AZURE_APP_NAME |-> ""]
    /\ heap = <<>>
    /\ currentContext = 0
    /\ diagSettings = [a \in Apps |-> <<>>]
    /\ inv = <<>>

SpecQuery == InitQuery /\ [][NextQuery]_vars

----------------------------------------------------------------------------
(* diagnose_deployment, tools/index.ts:903-1059, split at its awaits *)

\* deployments the metadata backend can hold
MaxDeployments == 2

\* (args.name as number) || fallback
ArgOr(args, name, fallback) ==
    IF name \in DOMAIN args /\ args[name] # 0 THEN args[name] ELSE fallback

DiagArgs ==
    { EmptyArgs,
      [deploymentIndex |-> 1, windowMinutes |-> 20],
      [deploymentIndex |-> 1, windowMinutes |-> 0],
      [deploymentIndex |-> 0 - 1, windowMinutes |-> 10],
      [deploymentIndex |-> 0, windowMinutes |-> maxMinutes + 1] }

\* the time of the invocation, ms: ten minutes after the latest deployment
DiagClock == 600000 * (MaxDeployments + 1)

\* a time the backend left out of a deployment record
NoTime == 0 - 1

\* the deployment history of the app, most recent first, ten minutes apart
\* (arm.ts:162-171)
DeploymentHistory ==
    [i \in 1..MaxDeployments |->
        [startTime |-> 600000 * (MaxDeployments + 1 - i),
         endTime |-> 600000 * (MaxDeployments + 1 - i) + 60000,
         status |-> IF i = 1 THEN "4" ELSE "",
         deployer |-> IF i = 1 THEN "GITHUB" ELSE "",
         message |-> ""]]

\* what the backend can hold: that history cut to any length, its second
\* record possibly without its start time or without both times
DeploymentHistories ==
    {SubSeq(h, 1, count) :
        h \in {DeploymentHistory,
               [DeploymentHistory EXCEPT ![2].startTime = NoTime],
               [DeploymentHistory EXCEPT ![2].startTime = NoTime, ![2].endTime = NoTime]},
        count \in 0..MaxDeployments}

\* ArmClient.getDeployments(context, limit), arm.ts:157-178: what it can
\* answer for a history; the loop pushes a record before it tests the limit,
\* and the catch answers []
getDeployments(history, limit) ==
    {SliceTo(history, IF limit < 1 THEN 1 ELSE limit), <<>>}

\* tools/index.ts:915: new Date(deployment.startTime || deployment.endTime)
DeployTime(deployment) ==
    IF deployment.startTime # NoTime THEN deployment.startTime ELSE deployment.endTime

\* tools/index.ts:918-922
HeaderSection(deployment) ==
    <<<<"## Deployment Diagnosis">>,
      <<"**Deployment:** ">> \o toISOString(DeployTime(deployment)),
      <<"**Status:** ", IF deployment.status # "" THEN deployment.status ELSE "Unknown">>,
      <<"**Deployer:** ", IF deployment.deployer # "" THEN deployment.deployer ELSE "N/A">>,
      <<"**Message:** ", IF deployment.message # "" THEN deployment.message ELSE "N/A">>>>

\* the rows the three tables can hold for the window: arrays of column values
PlatformRowSets ==
    {[i \in 1..Len(messages) |-> <<i, messages[i]>>] :
        messages \in SeqsUpTo(PlatformMessages, MaxDiagRows)}

ConsoleRowSets ==
    LET failed == <<2, <<"E", "r", "r", "o", "r", ":", " ", "x">>>>
        up == <<1, <<"u", "p">>>>
    IN  {<<>>, <<up>>, <<up, failed>>}

HttpRowSets ==
    {[i \in 1..Len(statuses) |-> <<i, "GET", "/", statuses[i], 5>>] :
        statuses \in {<<>>, <<404, 404>>, <<200, 500>>}}

\* what logAnalytics.query can return for a table with these columns
QueryAnswers(columns, rowSets, timeRangeMinutes) ==
    IF ExceedsTimeRange(timeRangeMinutes)
    THEN {FailureResult(0, TimeRangeError)}
    ELSE {ResultOfException([message |-> "RestError"], 0),
          ResultOfStatus([status |-> "PartialFailure", message |-> "", tables |-> <<>>], 0)}
         \cup {ResultOfStatus([status |-> "Success",
                               tables |-> <<[columnDescriptors |-> columns, rows |-> rows]>>],
                              0) : rows \in rowSets}

\* a logAnalytics.query call of the diagnosis: the table, the window written
\* into the query text, the timeRangeMinutes argument, and the time span query()
\* sends to the backend with the text (log-analytics.ts:63-64) unless it rejects
\* the range
DiagQuery(workspaceId, table, from, to, timeRangeMinutes) ==
    [workspaceId |-> workspaceId, table |-> table, from |-> from, to |-> to,
     timeRangeMinutes |-> timeRangeMinutes,
     dispatched |-> ~ExceedsTimeRange(timeRangeMinutes),
     startTime |-> now - timeRangeMinutes * 60 * 1000,
     endTime |-> now]

\* tools/index.ts:904-909: the invocation up to its first await
DiagnoseDeployment(args) ==
    /\ dpc = "idle"
    /\ heap' = getAppContextHeap
    /\ currentContext' = getAppContext
    /\ dArgs' = args
    /\ IF getAppContext = 0
       THEN /\ dpc' = "raised"
            /\ dResult' = <<<<"No App Service configured">>>>
            /\ UNCHANGED dLocals
       ELSE /\ dpc' = "awaitDeployments"
            /\ dLocals' = [NoLocals EXCEPT
                  !.context = getAppContext,
                  !.deploymentIndex = ArgOr(args, "deploymentIndex", 0),
                  !.windowMinutes = ArgOr(args, "windowMinutes", 10)]
            /\ UNCHANGED dResult
    /\ UNCHANGED <<now, qvars, kvars, env, diagSettings, inv, dQueries>>

\* the platform query sent whatever getWorkspaceId has returned
WorkspaceKnownQueries(locals, workspaceId, result) ==
    /\ dLocals' = [locals EXCEPT !.workspaceId = workspaceId]
    /\ dResult' = result
    /\ dQueries' = <<DiagQuery(workspaceId, "AppServicePlatformLogs", locals.deployTime,
                               locals.deployTime + locals.windowMinutes * 60 * 1000,
                               locals.windowMinutes)>>
    /\ dpc' = "awaitPlatform"
    /\ UNCHANGED kvars

\* tools/index.ts:925-934, 1042-1046: getWorkspaceId has returned workspaceId;
\* either the platform query is sent or getRecentLogs is called
WorkspaceKnown(locals, workspaceId, result) ==
    /\ dLocals' = [locals EXCEPT !.workspaceId = workspaceId]
    /\ dResult' = result
    /\ IF Truthy(workspaceId)
       THEN /\ dQueries' = <<DiagQuery(workspaceId, "AppServicePlatformLogs",
                                       locals.deployTime,
                                       locals.deployTime + locals.windowMinutes * 60 * 1000,
                                       locals.windowMinutes)>>
            /\ dpc' = "awaitPlatform"
            /\ UNCHANGED kvars
       ELSE /\ GetRecentLogsCall(FALLBACK_MAX_LINES, NoFilter)
            /\ dpc' = "awaitKudu"
            /\ UNCHANGED dQueries

\* tools/index.ts:909-925, 1196-1201: getDeployments answered
DiagDeployments(history) ==
    /\ dpc = "awaitDeployments"
    /\ \E deployments \in getDeployments(history, dLocals.deploymentIndex + 1) :
          IF Len(deployments) <= dLocals.deploymentIndex
          THEN /\ dpc' = "done"
               /\ dResult' = <<<<"Error: No deployment found at index ",
                                 ToString(dLocals.deploymentIndex), ". Only ",
                                 ToString(Len(deployments)), " deployments available.">>>>
               /\ dLocals' = [dLocals EXCEPT !.deployments = deployments]
               /\ UNCHANGED <<kvars, dQueries>>
          ELSE IF dLocals.deploymentIndex < 0
          THEN \* deployments[deploymentIndex] is undefined
               /\ dpc' = "raised"
               /\ dResult' = <<<<"Cannot read properties of undefined (reading 'startTime')">>>>
               /\ dLocals' = [dLocals EXCEPT !.deployments = deployments]
               /\ UNCHANGED <<kvars, dQueries>>
          ELSE IF DeployTime(deployments[dLocals.deploymentIndex + 1]) = NoTime
          THEN \* deployTime is an invalid Date and toISOString() throws
               /\ dpc' = "raised"
               /\ dResult' = <<<<"Invalid time value">>>>
               /\ dLocals' = [dLocals EXCEPT !.deployments = deployments]
               /\ UNCHANGED <<kvars, dQueries>>
          ELSE LET deployment == deployments[dLocals.deploymentIndex + 1]
                   locals == [dLocals EXCEPT !.deployments = deployments,
                                             !.deployTime = DeployTime(deployment)]
                   cached == heap[dLocals.context].logAnalyticsWorkspaceId
               IN  IF Truthy(cached)
                   THEN WorkspaceKnown(locals, cached, HeaderSection(deployment))
                   ELSE /\ dpc' = "awaitDiag"
                        /\ dLocals' = locals
                        /\ dResult' = HeaderSection(deployment)
                        /\ UNCHANGED <<kvars, dQueries>>
    /\ UNCHANGED <<now, qvars, cvars, dArgs>>

\* getWorkspaceId, tools/index.ts:1201-1210: getDiagnosticSettings answered
DiagSettingsAnswered ==
    /\ dpc = "awaitDiag"
    /\ \E diag \in getDiagnosticSettings(heap[dLocals.context]) :
          IF ~diag.enabled \/ diag.logAnalyticsWorkspaceId = NoPath
          THEN WorkspaceKnown(dLocals, Null, dResult)
          ELSE /\ dpc' = "awaitResolve"
               /\ dLocals' = [dLocals EXCEPT !.path = diag.logAnalyticsWorkspaceId]
               /\ UNCHANGED <<kvars, dQueries, dResult>>
    /\ UNCHANGED <<now, qvars, cvars, dArgs>>

\* getWorkspaceId, tools/index.ts:1207-1216: resolveWorkspaceId answered
DiagResolved ==
    /\ dpc = "awaitResolve"
    /\ \E workspaceGuid \in resolveWorkspaceId(dLocals.path) :
          /\ heap' = IF Truthy(workspaceGuid)
                     THEN updateDiagnosticInfo(heap, currentContext, workspaceGuid, Bool(TRUE))
                     ELSE heap
          /\ WorkspaceKnown(dLocals, workspaceGuid, dResult)
    /\ UNCHANGED <<now, qvars, env, currentContext, diagSettings, inv, dArgs>>

\* the window of the invocation in a query on the table
WindowQuery(table) ==
    DiagQuery(dLocals.workspaceId, table, dLocals.deployTime,
              dLocals.deployTime + dLocals.windowMinutes * 60 * 1000, dLocals.windowMinutes)

\* a failed platform query ending the invocation
DiagPlatformAnsweredAborts ==
    /\ dpc = "awaitPlatform"
    /\ \E platformLogs \in QueryAnswers(<<"TimeGenerated", "Message">>, PlatformRowSets,
                                        dLocals.windowMinutes) :
          /\ dLocals' = [dLocals EXCEPT !.platformLogs = platformLogs]
          /\ IF platformLogs.success
             THEN /\ dQueries' = Append(dQueries, WindowQuery("AppServiceConsoleLogs"))
                  /\ dpc' = "awaitConsole"
                  /\ UNCHANGED dResult
             ELSE /\ dpc' = "done"
                  /\ dResult' = <<<<"Error: ">> \o platformLogs.error>>
                  /\ UNCHANGED dQueries
    /\ UNCHANGED <<now, qvars, cvars, kvars, dArgs>>

\* tools/index.ts:934-942: the platform query answered
DiagPlatformAnswered ==
    /\ dpc = "awaitPlatform"
    /\ \E platformLogs \in QueryAnswers(<<"TimeGenerated", "Message">>, PlatformRowSets,
                                        dLocals.windowMinutes) :
          dLocals' = [dLocals EXCEPT !.platformLogs = platformLogs]
    /\ dQueries' = Append(dQueries, WindowQuery("AppServiceConsoleLogs"))
    /\ dpc' = "awaitConsole"
    /\ UNCHANGED <<now, qvars, cvars, kvars, dArgs, dResult>>

\* tools/index.ts:942-951: the console query answered
DiagConsoleAnswered ==
    /\ dpc = "awaitConsole"
    /\ \E consoleLogs \in QueryAnswers(<<"TimeGenerated", "ResultDescription">>,
                                       ConsoleRowSets, dLocals.windowMinutes) :
          dLocals' = [dLocals EXCEPT !.consoleLogs = consoleLogs]
    /\ dQueries' = Append(dQueries, WindowQuery("AppServiceHTTPLogs"))
    /\ dpc' = "awaitHttp"
    /\ UNCHANGED <<now, qvars, cvars, kvars, dArgs, dResult>>

\* tools/index.ts:951-1040, 1053-1058: the HTTP query answered, the report built
DiagHttpAnswered ==
    /\ dpc = "awaitHttp"
    /\ \E httpLogs \in QueryAnswers(<<"TimeGenerated", "CsMethod", "CsUriStem", "ScStatus",
                                      "TimeTaken">>, HttpRowSets, dLocals.windowMinutes) :
          LET events == Classify(dLocals.platformLogs.rows, dLocals.consoleLogs.rows,
                                 httpLogs.rows)
          IN  /\ dLocals' = [dLocals EXCEPT !.httpLogs = httpLogs, !.events = events]
              /\ dResult' = dResult
                     \o PlatformSection(dLocals.platformLogs.rows, events)
                     \o ConsoleSection(dLocals.consoleLogs.rows, events)
                     \o HttpSection(httpLogs.rows, events)
                     \o SummarySection(dLocals.windowMinutes, dLocals.deployTime)
    /\ dpc' = "done"
    /\ UNCHANGED <<now, qvars, cvars, kvars, dArgs, dQueries>>

\* tools/index.ts:1046-1058: getRecentLogs has returned, the report built
DiagKuduReturned ==
    /\ dpc = "awaitKudu"
    /\ kpc = "returned"
    /\ dLocals' = [dLocals EXCEPT !.kuduLogs = kResult]
    /\ dResult' = dResult \o FallbackSection(kResult)
                     \o SummarySection(dLocals.windowMinutes, dLocals.deployTime)
    /\ dpc' = "done"
    /\ UNCHANGED <<now, qvars, cvars, kvars, dArgs, dQueries>>

\* a session that has no Target yet, or has one with its identifier cached
InitDiag ==
    /\ now = DiagClock
    /\ qpc = "idle"
    /\ qArgs = [workspaceId |-> "", kqlQuery |-> <<>>, timeRangeMinutes |-> 0]
    /\ qStart = 0
    /\ qCalls = <<>>
    /\ qAnswer = NoAnswer
    /\ qResult = NoResult
    /\ KuduIdle
    /\ DiagIdle
    /\ \/ /\ env \in Envs
          /\ heap = <<>> /\ currentContext = 0
          /\ diagSettings = [a \in Apps |-> <<>>]
       \/ /\ env \in {e \in Envs : Truthy(e.AZURE_APP_NAME)}
          /\ heap = <<>> /\ currentContext = 0
          /\ diagSettings = [a \in Apps |-> <<[workspaceId |-> WorkspacePath(a)]>>]
       \/ /\ env \in {e \in Envs : Truthy(e.AZURE_APP_NAME)}
          /\ heap = <<[NewContext("subA", "rgA", "appA") EXCEPT
                          !.logAnalyticsWorkspaceId = "guidA",
                          !.diagnosticsEnabled = Bool(TRUE)]>>
          /\ currentContext = 1
          /\ diagSettings = [a \in Apps |-> <<[workspaceId |-> WorkspacePath(a)]>>]
    /\ inv = <<>>

\* the answers of the Kudu site a diagnosis is tried on: listings of at most
\* one descriptor, and three of the texts
DiagListings == {logs \in Listings : Len(logs) <= 1}
DiagContents ==
    {<<>>, ManyLines,
     Str(<<"E", "r", "r", "\n", "o", "k", "\n", " ", "\n", "E", "R", "R", " ", "2", "\n">>)}

NextDiag ==
    \/ \E args \in DiagArgs : DiagnoseDeployment(args)
    \/ \E history \in DeploymentHistories : DiagDeployments(history)
    \/ DiagSettingsAnswered
    \/ DiagResolved
    \/ DiagPlatformAnswered
    \/ DiagConsoleAnswered
    \/ DiagHttpAnswered
    \/ DiagKuduReturned
    \/ ContainerListFailed
    \/ \E logs \in DiagListings : ContainerListed(logs)
    \/ ContainerFetchFailed
    \/ \E content \in DiagContents : ContainerFetched(content)
    \/ FilesListFailed
    \/ \E logFiles \in DiagListings : FilesListed(logFiles)
    \/ FileReadFailed
    \/ \E content \in DiagContents : FileRead(content)

SpecDiag == InitDiag /\ [][NextDiag]_vars

----------------------------------------------------------------------------
(* The context store called directly: the five exports of context.ts *)

\* process.env as the store reads it: each of the three values set or unset
StoreEnvs ==
    [AZURE_SUBSCRIPTION_ID : {"", "subA"},
     AZURE_RESOURCE_GROUP : {"", "rgA"},
     AZURE_APP_NAME : {"", "appA"}]

\* the AppContext objects a caller can hand to setAppContext (context.ts:5-12):
\* the three identifying fields, with or without the optional cached fields
AppContexts ==
    {[NewContext(t.subscriptionId, t.resourceGroup, t.appName) EXCEPT
          !.logAnalyticsWorkspaceId = c[1], !.diagnosticsEnabled = c[2]] :
        t \in Targets, c \in {<<Undefined, Undefined>>, <<"guidA", Bool(TRUE)>>}}

\* getAppContext(), context.ts:19-35
GetAppContextCall ==
    /\ CanArrive
    /\ heap' = getAppContextHeap
    /\ currentContext' = getAppContext
    /\ inv' = Append(inv, [Invocation("getAppContext", getAppContext) EXCEPT
                !.response = IF getAppContext = 0 THEN Null ELSE "context"])
    /\ UNCHANGED <<now, qvars, kvars, dvars, env, diagSettings>>

\* requireAppContext(), context.ts:64-75: getAppContext, then the throw
RequireAppContextCall ==
    /\ CanArrive
    /\ heap' = getAppContextHeap
    /\ currentContext' = getAppContext
    /\ inv' = Append(inv, [Invocation("requireAppContext", getAppContext) EXCEPT
                !.response = IF getAppContext = 0 THEN NoContextResponse ELSE "context"])
    /\ UNCHANGED <<now, qvars, kvars, dvars, env, diagSettings>>

\* setAppContext(context), context.ts:40-42, given a new object
SetAppContextNew(context) ==
    /\ CanArrive
    /\ heap' = Append(heap, context)
    /\ currentContext' = Len(heap) + 1
    /\ inv' = Append(inv, Invocation("setAppContext", Len(heap) + 1))
    /\ UNCHANGED <<now, qvars, kvars, dvars, env, diagSettings>>

\* setAppContext(context), context.ts:40-42, given an object obtained earlier
SetAppContextHeld(ref) ==
    /\ CanArrive
    /\ currentContext' = ref
    /\ inv' = Append(inv, Invocation("setAppContext", ref))
    /\ UNCHANGED <<now, qvars, kvars, dvars, env, heap, diagSettings>>

\* updateDiagnosticInfo(workspaceId, enabled), context.ts:47-52
UpdateDiagnosticInfoCall(workspaceId, enabled) ==
    /\ CanArrive
    /\ heap' = updateDiagnosticInfo(heap, currentContext, workspaceId, enabled)
    /\ inv' = Append(inv, Invocation("updateDiagnosticInfo", currentContext))
    /\ UNCHANGED <<now, qvars, kvars, dvars, env, currentContext, diagSettings>>

\* clearAppContext(), context.ts:57-59
ClearAppContextCall ==
    /\ CanArrive
    /\ currentContext' = 0
    /\ inv' = Append(inv, Invocation("clearAppContext", 0))
    /\ UNCHANGED <<now, qvars, kvars, dvars, env, heap, diagSettings>>

InitStore ==
    /\ QueryInit
    /\ KuduIdle
    /\ DiagIdle
    /\ env \in StoreEnvs
    /\ heap = <<>>
    /\ currentContext = 0
    /\ diagSettings = [a \in Apps |-> <<>>]
    /\ inv = <<>>

NextStore ==
    \/ GetAppContextCall
    \/ RequireAppContextCall
    \/ \E context \in AppContexts : SetAppContextNew(context)
    \/ \E ref \in 1..Len(heap) : SetAppContextHeld(ref)
    \/ \E c \in {<<"guidA", Bool(TRUE)>>, <<Undefined, Bool(FALSE)>>} :
          UpdateDiagnosticInfoCall(c[1], c[2])
    \/ ClearAppContextCall

SpecStore == InitStore /\ [][NextStore]_vars

----------------------------------------------------------------------------
(* One getRecentLogs call on its own *)

InitKudu ==
    /\ QueryInit
    /\ KuduIdle
    /\ DiagIdle
    /\ env = [AZURE_SUBSCRIPTION_ID |-> "", AZURE_RESOURCE_GROUP |-> "", AZURE_APP_NAME |-> ""]
    /\ heap = <<>>
    /\ currentContext = 0
    /\ diagSettings = [a \in Apps |-> <<>>]
    /\ inv = <<>>

NextKudu ==
    \/ \E maxLines \in MaxLinesArgs, filter \in Filters : GetRecentLogs(maxLines, filter)
    \/ ContainerListFailed
    \/ \E logs \in Listings : ContainerListed(logs)
    \/ ContainerFetchFailed
    \/ \E content \in Contents : ContainerFetched(content)
    \/ FilesListFailed
    \/ \E logFiles \in Listings : FilesListed(logFiles)
    \/ FileReadFailed
    \/ \E content \in Contents : FileRead(content)

SpecKudu == InitKudu /\ [][NextKudu]_vars

----------------------------------------------------------------------------
(* Properties of LogAnalyticsConnector.query, checked under SpecQuery *)

Called == qpc # "idle"
Returned == qpc = "returned"
Dispatched == qCalls[Len(qCalls)].query

\* the message names the 7-day maximum
NamesSevenDays(error) ==
    \E i \in 1..(Len(error) - 1) :
        error[i] = "7" /\ error[i + 1] = " days. Use a shorter time range."

\* C1: a call with timeRangeMinutes > 10080 returns success=false, rowCount=0,
\* no rows, queryTimeMs=0 and an error naming the 7-day maximum, and makes no
\* backend call; a call with exactly 10080 is dispatched to the backend.
C1_TimeRangeGuardrail ==
    /\ (Called /\ qArgs.timeRangeMinutes > 10080) =>
          /\ Returned
          /\ qResult.success = FALSE
          /\ qResult.rowCount = 0
          /\ qResult.rows = <<>>
          /\ qResult.queryTimeMs = 0
          /\ NamesSevenDays(qResult.error)
          /\ qCalls = <<>>
    /\ (Called /\ qArgs.timeRangeMinutes = 10080) =>
          /\ Len(qCalls) = 1
          /\ Returned => ~NamesSevenDays(qResult.error)

C1_Witness ==
    /\ Returned
    /\ qArgs.timeRangeMinutes = 10081
    /\ qArgs.kqlQuery = <<"T", " ", "|", " ", "take", " ", "10">>

\* a row-cap clause in the form the enforcer writes it: pipe, one space, then
\* limit or take in any letter case
HasPipeSpaceRowCap(q) ==
    \E i \in 1..(Len(q) - 2) :
        /\ q[i] = "|"
        /\ q[i + 1] = " "
        /\ q[i + 2] \in {"limit", "LIMIT", "Limit", "take", "TAKE", "Take"}

C3_NoSecondRowCap ==
    (Len(qCalls) = 1 /\ RowCapClauses(qArgs.kqlQuery) # {}) =>
        Cardinality(RowCapClauses(Dispatched)) = Cardinality(RowCapClauses(qArgs.kqlQuery))

\* C4: every result returned holds at most 500 rows.
C4_AtMostMaxRows == Returned => Len(qResult.rows) <= 500

\* C5: truncated is true if and only if rowCount equals 500.
C5_TruncatedIffCap == Returned => (qResult.truncated <=> qResult.rowCount = 500)

\* C6: in every result returned, rowCount is the number of entries of rows.
C6_RowCountIsLength == Returned => qResult.rowCount = Len(qResult.rows)

C6_Witness ==
    /\ Returned
    /\ qResult.success
    /\ Len(qResult.rows) = 499

\* C7: query() never throws, and what it returns follows the backend's answer:
\* an exception or a partial failure gives success=false with an error message
\* and no rows; a successful status without rows gives success=true,
\* rowCount=0 and no error; a successful status with rows gives success=true
\* with those rows.
C7_ThreeOutcomes ==
    /\ qpc \in {"idle", "awaitBackend", "returned"}
    /\ (Returned /\ (qAnswer.kind = "throw" \/ qAnswer.status = "PartialFailure")) =>
          /\ qResult.success = FALSE
          /\ qResult.error # NoError
          /\ qResult.rows = <<>>
          /\ qResult.rowCount = 0
    /\ (Returned /\ qAnswer.status = "Success" /\ qAnswer.rows = 0) =>
          /\ qResult.success = TRUE
          /\ qResult.rowCount = 0
          /\ qResult.rows = <<>>
          /\ qResult.error = NoError
    /\ (Returned /\ qAnswer.status = "Success" /\ qAnswer.rows > 0) =>
          /\ qResult.success = TRUE
          /\ qResult.error = NoError
          /\ Len(qResult.rows) = qAnswer.rows
          /\ \A i \in 1..Len(qResult.rows) :
                qResult.rows[i].TimeGenerated = i /\ qResult.rows[i].Message = "m"

C7_Witness ==
    /\ Returned
    /\ qAnswer.kind = "throw"
    /\ qResult.success = FALSE

----------------------------------------------------------------------------
(* Properties of the session context and the resolver, checked under SpecCtx *)

Invocations == 1..Len(inv)

RECURSIVE SumMetaCalls(_)
SumMetaCalls(s) == IF s = <<>> THEN 0 ELSE Head(s).metaCalls + SumMetaCalls(Tail(s))

\* metadata-backend calls made so far, by all invocations
TotalMetaCalls == SumMetaCalls(inv)

SessionCached ==
    currentContext # 0 /\ Truthy(heap[currentContext].logAnalyticsWorkspaceId)

\* C8 as stated: while the session's Target holds a cached identifier, no step
\* of any tool invocation calls the metadata backend.
C8_NoLookupWhileCached ==
    [][SessionCached => TotalMetaCalls' = TotalMetaCalls]_vars

\* C8 as amended: a getWorkspaceId call whose Target object holds a cached
\* identifier returns that identifier and makes no metadata-backend call.
C8_ResolverUsesCache ==
    \A i \in Invocations :
        (inv[i].tool = "query_logs" /\ Truthy(inv[i].cachedAtCall)) =>
            /\ inv[i].metaCalls = 0
            /\ inv[i].pc = "done"
            /\ inv[i].workspaceId = inv[i].cachedAtCall

C8_Witness ==
    \E i \in Invocations :
        /\ inv[i].tool = "query_logs"
        /\ inv[i].cachedAtCall = "guidA"
        /\ inv[i].response = "Query Results"

\* the step in which getWorkspaceId of invocation i returns after its first lookup
ReturnsAfterDiag(i) ==
    inv[i].tool = "query_logs" /\ inv[i].pc = "awaitDiag" /\ inv'[i].pc = "done"

\* what a getWorkspaceId call that found nothing cached has done and returned
LookedUp(r) ==
    /\ r.metaCalls >= 1
    /\ r.pc = "done" =>
          IF r.diag.enabled /\ r.diag.logAnalyticsWorkspaceId # NoPath
          THEN /\ r.metaCalls = 2
               /\ r.diag.logAnalyticsWorkspaceId = WorkspacePath(heap[r.ctx].appName)
               /\ r.workspaceId \in {CustomerId(WorkspacePath(heap[r.ctx].appName)), Null}
          ELSE /\ r.metaCalls = 1
               /\ r.workspaceId = Null

\* C9: a getWorkspaceId call that finds no destination returns none and leaves
\* the session context as it was (nothing is cached for "none"); and every
\* call on a Target object without a cached identifier does the lookup and
\* returns what the lookup finds, so a destination configured since is found.
C9_NoneIsNotCached ==
    /\ [][\A i \in Invocations :
            ReturnsAfterDiag(i) =>
                /\ inv'[i].workspaceId = Null
                /\ heap' = heap
                /\ currentContext' = currentContext]_vars
    /\ [](\A i \in Invocations :
            (inv[i].tool = "query_logs" /\ inv[i].ctx # 0 /\ ~Truthy(inv[i].cachedAtCall)) =>
                LookedUp(inv[i]))

\* a call that found none, then a call that found the destination configured since
C9_Witness ==
    \E i \in Invocations :
        /\ inv[i].tool = "query_logs"
        /\ inv[i].afterNone
        /\ inv[i].pc = "done"
        /\ inv[i].workspaceId = "guidA"
        /\ heap[inv[i].ctx].logAnalyticsWorkspaceId = "guidA"

\* the step in which getWorkspaceId of invocation i returns a translated identifier
ReturnsResolved(i) ==
    /\ inv[i].tool = "query_logs"
    /\ inv[i].pc = "awaitResolve"
    /\ inv'[i].pc = "done"
    /\ Truthy(inv'[i].workspaceId)

SameTarget(c, d) ==
    /\ c.subscriptionId = d.subscriptionId
    /\ c.resourceGroup = d.resourceGroup
    /\ c.appName = d.appName

\* C10: when getWorkspaceId returns an identifier it has looked up, the session
\* context is that of the Target the call was made for, and it holds that
\* identifier and the enabled flag set to true (so that the next call for that
\* Target answers from the cache).
C10_CachedForItsTarget ==
    [][\A i \in Invocations :
         ReturnsResolved(i) =>
            /\ currentContext' # 0
            /\ SameTarget(heap'[currentContext'], heap'[inv[i].ctx])
            /\ heap'[currentContext'].logAnalyticsWorkspaceId = inv'[i].workspaceId
            /\ heap'[currentContext'].diagnosticsEnabled = "true"]_vars

----------------------------------------------------------------------------
(* Properties of the context store, checked under SpecStore *)

\* the step is a call of the named export of context.ts
StoreCalls(name) ==
    /\ Len(inv') = Len(inv) + 1
    /\ inv'[Len(inv')].tool = name

\* what the call of this step returned, or for setAppContext the object it was given
StoreRef == inv'[Len(inv')].ctx

AllThreePresent == \A k \in DOMAIN env : env[k] # ""

\* the Target the three environment values name
IsEnvTarget(c) ==
    /\ c.subscriptionId = env.AZURE_SUBSCRIPTION_ID
    /\ c.resourceGroup = env.AZURE_RESOURCE_GROUP
    /\ c.appName = env.AZURE_APP_NAME
    /\ c.logAnalyticsWorkspaceId = Undefined
    /\ c.diagnosticsEnabled = Undefined

\* what getAppContext is to return and store in this step
GetContract ==
    IF currentContext # 0
    THEN StoreRef = currentContext /\ currentContext' = currentContext /\ heap' = heap
    ELSE IF AllThreePresent
    THEN /\ StoreRef = Len(heap) + 1
         /\ currentContext' = StoreRef
         /\ heap' = Append(heap, heap'[StoreRef])
         /\ IsEnvTarget(heap'[StoreRef])
    ELSE StoreRef = 0 /\ currentContext' = 0 /\ heap' = heap

\* C12: getAppContext returns the Target set earlier if there is one; otherwise
\* with all three environment values present it synthesizes a Target from them,
\* stores it as the session's Target and returns it, and with any of the three
\* missing it returns none and stores nothing; requireAppContext fails with the
\* configuration error exactly when getAppContext returns none, and returns
\* what getAppContext returns otherwise.
C12_GetAndRequire ==
    [][/\ StoreCalls("getAppContext") =>
            /\ GetContract
            /\ inv'[Len(inv')].response = (IF StoreRef = 0 THEN Null ELSE "context")
       /\ StoreCalls("requireAppContext") =>
            /\ GetContract
            /\ inv'[Len(inv')].response = NoContextResponse <=> StoreRef = 0]_vars

\* a require that failed with values missing, a set, then a get returning the
\* Target that was set
C12_Witness ==
    /\ Len(inv) = 3
    /\ ~AllThreePresent
    /\ inv[1].tool = "requireAppContext" /\ inv[1].response = NoContextResponse
    /\ inv[2].tool = "setAppContext"
    /\ inv[3].tool = "getAppContext" /\ inv[3].ctx = inv[2].ctx /\ inv[3].ctx # 0

----------------------------------------------------------------------------
(* Concurrent resolver calls, checked under SpecCtx *)

\* the identifier the Target of context object c resolves to
ResolvesTo(c) == CustomerId(WorkspacePath(c.appName))

\* the session consists of finished getWorkspaceId calls made for one Target
\* object, the session's own, after at most a set_context that selected it
OnlyResolversOfOneTarget ==
    /\ currentContext # 0
    /\ \A i \in Invocations :
          /\ inv[i].pc = "done"
          /\ \/ inv[i].tool = "query_logs" /\ inv[i].ctx = currentContext
             \/ i = 1 /\ inv[i].tool = "set_context"

----------------------------------------------------------------------------
(* Properties of KuduConnector.getRecentLogs, checked under SpecKudu *)

KuduReturned == kpc = "returned"

\* the answer to the request op of this call, "none" when it was not made
AnswerTo(op) ==
    IF \E i \in 1..Len(kCalls) : kCalls[i].op = op
    THEN kCalls[CHOOSE i \in 1..Len(kCalls) : kCalls[i].op = op].answer
    ELSE "none"

\* C14: getRecentLogs never raises: whatever the live-stream listing, the
\* live-stream fetch, the on-disk listing and the on-disk read answer (each
\* succeeding, returning nothing, or failing), the call ends by returning a
\* result object with a success flag and a list of entries, and with an error
\* message when success is false.
C14_NeverRaises ==
    /\ kpc \in {"idle", "awaitList", "awaitFetch", "awaitFiles", "awaitRead", "returned"}
    /\ KuduReturned =>
          /\ DOMAIN kResult = {"success", "entries", "error"}
          /\ kResult.success \in BOOLEAN
          /\ kResult.success => kResult.error = NoError
          /\ ~kResult.success => (kResult.error # NoError /\ kResult.entries = <<>>)

\* the live-stream fetch failed, then the on-disk read failed
C14_Witness ==
    /\ KuduReturned
    /\ AnswerTo("fetch") = "failed"
    /\ AnswerTo("readLogFile") = "failed"
    /\ ~kResult.success


\* the on-disk tier was consulted and its read answered with a text
FallbackRead == KuduReturned /\ AnswerTo("readLogFile") \in {"ok", "empty"}

\* the contents of the entries returned
ReturnedContents == [i \in 1..Len(kResult.entries) |-> kResult.entries[i].content]

\* the lines of the text that are not blank and pass the filter of the call
UsableLines(text) == ApplyFilter(SelectSeq(Split(text), NotBlank), kArgs.filter)

\* C15 as stated: when the live-stream attempt yields no usable entry and the
\* on-disk fallback succeeds, the entries returned are exactly the lines of the
\* on-disk log that was read, verbatim, blank lines dropped and the filter
\* applied, and no entry is anything but a line of that file.
C15_ExactlyFileLines ==
    FallbackRead => ReturnedContents = UsableLines(kRead)

\* the request went to a descriptor of the listing than which none is later
FetchedLatest(op) ==
    \E d \in {kListing[i] : i \in 1..Len(kListing)} :
        /\ \E i \in 1..Len(kCalls) : kCalls[i].op = op /\ kCalls[i].target = d.href
        /\ \A i \in 1..Len(kListing) : kListing[i].lastUpdated <= d.lastUpdated

\* s is the last count elements of t, all of t when count is 0 or exceeds Len(t)
IsLastOf(s, t, count) ==
    /\ Len(s) = (IF count = 0 \/ count > Len(t) THEN Len(t) ELSE count)
    /\ \A i \in 1..Len(s) : s[i] = t[Len(t) - Len(s) + i]

\* e is what is left of the line after characters are cut off its front
IsTailOf(e, line) ==
    /\ Len(e) >= 1
    /\ Len(e) <= Len(line)
    /\ LET off == Len(line) - Len(e)
       IN  /\ \A i \in 2..Len(e) : e[i] = line[off + i]
           /\ e[1].ch = line[off + 1].ch
           /\ e[1].n <= line[off + 1].n

\* C15 as amended: the file read is a most recently modified one of the
\* listing; when its text has at most 100000 characters the entries are the
\* last maxLines (all, when maxLines is 0) of its non-blank lines that pass the
\* filter, verbatim and in order; when it is longer, at most maxLines entries
\* are returned and each is a line of the file, the tail of a line cut at the
\* 100000th character from the end, or the marker line "... (truncated)".
C15_TailOfFileLines ==
    FallbackRead =>
        /\ FetchedLatest("readLogFile")
        /\ IF Length(kRead) <= LOG_FILE_MAX_BYTES
           THEN IsLastOf(ReturnedContents, UsableLines(kRead), kArgs.maxLines)
           ELSE /\ kArgs.maxLines > 0 => Len(ReturnedContents) <= kArgs.maxLines
                /\ \A i \in 1..Len(ReturnedContents) :
                      \/ ReturnedContents[i] = Tail(TruncationMark)
                      \/ \E j \in 1..Len(UsableLines(kRead)) :
                            IsTailOf(ReturnedContents[i], UsableLines(kRead)[j])

\* a file two characters over the cap, read after the live stream had nothing:
\* the cut first line, two whole lines and the marker come back
C15_Witness ==
    /\ FallbackRead
    /\ AnswerTo("listContainerLogs") = "empty"
    /\ Length(kRead) > LOG_FILE_MAX_BYTES
    /\ kArgs.filter = NoFilter
    /\ Len(kResult.entries) = 4
    /\ ReturnedContents[4] = Tail(TruncationMark)
    /\ ReturnedContents[1] # UsableLines(kRead)[1]


\* the on-disk tier was consulted and its listing or its read failed
FallbackFailed ==
    KuduReturned /\ (AnswerTo("listLogFiles") = "failed" \/ AnswerTo("readLogFile") = "failed")

\* the live-stream attempt itself failed, at its listing or at its fetch
LiveStreamFailed ==
    AnswerTo("listContainerLogs") = "failed" \/ AnswerTo("fetch") = "failed"

\* C16 as stated: when the on-disk fallback fails, the result returned has
\* success=true and carries no error message.
C16_NeverAnError ==
    FallbackFailed => (kResult.success /\ kResult.error = NoError)

\* C16 as amended: when the on-disk fallback fails, getRecentLogs returns the
\* live-stream result with no entries and never the fallback's error: success
\* =true without an error message when the live-stream attempt succeeded with
\* nothing usable, success=false with the live-stream attempt's own error
\* message when that attempt failed.
C16_ReturnsLiveStreamResult ==
    FallbackFailed =>
        /\ kResult = kContainer
        /\ kResult.entries = <<>>
        /\ IF LiveStreamFailed
           THEN /\ ~kResult.success
                /\ kResult.error \in {<<"Failed to list container logs: ", "HTTP 500">>,
                                      <<"HTTP 500">>}
                /\ (kResult.error = <<"HTTP 500">>) <=> (AnswerTo("fetch") = "failed")
           ELSE kResult.success /\ kResult.error = NoError

\* a live stream with blank lines only, then an on-disk read that failed
C16_Witness ==
    /\ FallbackFailed
    /\ AnswerTo("fetch") = "empty"
    /\ AnswerTo("readLogFile") = "failed"
    /\ kResult.success


\* the fetch requests made so far
FetchRequests == SelectSeq(kCalls, LAMBDA c : c.op = "fetch")

\* C17: given two or more live-stream descriptors with different last-modified
\* timestamps, in any listing order, the connector fetches exactly one
\* descriptor and it is the one with the latest timestamp.
C17_FetchesLatest ==
    /\ Len(FetchRequests) <= 1
    /\ (/\ kpc = "awaitFetch"
        /\ Len(kListing) >= 2
        /\ \A i, j \in 1..Len(kListing) :
              i # j => kListing[i].lastUpdated # kListing[j].lastUpdated) =>
          /\ Len(FetchRequests) = 1
          /\ \E i \in 1..Len(kListing) :
                /\ FetchRequests[1].target = kListing[i].href
                /\ \A j \in 1..Len(kListing) :
                      j # i => kListing[j].lastUpdated < kListing[i].lastUpdated

\* the latest descriptor was listed last and is the one being fetched
C17_Witness ==
    /\ kpc = "awaitFetch"
    /\ Len(kListing) >= 2
    /\ \A j \in 1..(Len(kListing) - 1) :
          kListing[j].lastUpdated < kListing[Len(kListing)].lastUpdated
    /\ FetchRequests[1].target = kListing[Len(kListing)].href

----------------------------------------------------------------------------
(* Deployment diagnosis: claims C18..C20 *)

\* the invocation has returned the report built from the three result sets
DiagClassified == dpc = "done" /\ Len(dQueries) = 3

Tagged(r, events) == \E i \in 1..Len(events) : events[i] = r

LowerHasAny(text, words) == \E w \in words : includes(toLowerCase(text), w)

\* C18 (as claimed): every tag of a platform row is decided by a
\* case-insensitive substring test: the row is among the startup events exactly
\* when its Message holds "start", "probe" or "running" in any letter case,
\* among the terminations exactly when it holds "terminat" or "stop" in any
\* letter case, and among the errors exactly when it holds "error", "fail",
\* "crash", "oom" or "memory" in any letter case.
C18_CaseInsensitiveTags ==
    DiagClassified =>
        \A i \in 1..Len(dLocals.platformLogs.rows) :
            LET r == dLocals.platformLogs.rows[i]
            IN  /\ Tagged(r, dLocals.events.startupEvents)
                       <=> LowerHasAny(r.Message, StartupWords)
                /\ Tagged(r, dLocals.events.terminateEvents)
                       <=> LowerHasAny(r.Message, TerminateWords)
                /\ Tagged(r, dLocals.events.errorEvents)
                       <=> LowerHasAny(r.Message, ErrorWords)

\* the places of the lines of the report that begin with this string
LinesStarting(first) ==
    {i \in 1..Len(dResult) : dResult[i] # <<>> /\ dResult[i][1] = first}

SectionHeaders ==
    LinesStarting("### Platform Events (") \cup LinesStarting("### Application Logs (")
    \cup LinesStarting("### First HTTP Requests (")

\* C19 (as claimed): a diagnosis with a workspace identifier emits exactly the
\* three section headers, platform events, application logs and first HTTP
\* requests in that order, and the line after each header is a finding or a
\* "none" marker: never the next header and never the summary.
C19_ThreeSectionsEachFilled ==
    DiagClassified =>
        \E p, c, h, s \in 1..Len(dResult) :
            /\ LinesStarting("### Platform Events (") = {p}
            /\ LinesStarting("### Application Logs (") = {c}
            /\ LinesStarting("### First HTTP Requests (") = {h}
            /\ LinesStarting("### Diagnosis Summary") = {s}
            /\ p + 1 < c
            /\ c + 1 < h
            /\ h + 1 < s

\* getWorkspaceId has returned none to the invocation and the invocation has
\* gone on: the deployment header is written and no identifier is held
DiagWithoutWorkspace ==
    /\ dpc \in {"awaitPlatform", "awaitConsole", "awaitHttp", "awaitKudu", "done"}
    /\ Len(dResult) >= 5
    /\ ~Truthy(dLocals.workspaceId)

FallbackLabel == <<"Log Analytics not configured. Limited diagnosis available.">>

\* C20: a diagnosis without a workspace identifier issues no structured query;
\* it has made its one getRecentLogs call, for FALLBACK_MAX_LINES = 100 lines
\* and no filter, and once it has returned, the result it was given holds at
\* most 100 entries and the report carries the limited-fallback label and no
\* structured section.
C20_FallbackOnly ==
    DiagWithoutWorkspace =>
        /\ dQueries = <<>>
        /\ dpc \in {"awaitKudu", "done"}
        /\ kpc # "idle"
        /\ kArgs = [maxLines |-> 100, filter |-> NoFilter]
        /\ Len(SelectSeq(kCalls, LAMBDA call : call.op = "listContainerLogs")) = 1
        /\ dpc = "done" =>
              /\ Len(dLocals.kuduLogs.entries) <= 100
              /\ \E i \in 1..Len(dResult) : dResult[i] = FallbackLabel
              /\ SectionHeaders = {}

\* the fallback has returned a log of more than 100 lines cut to 100
C20_Witness ==
    /\ DiagWithoutWorkspace
    /\ dpc = "done"
    /\ Len(dLocals.kuduLogs.entries) = 100
    /\ \E i \in 1..Len(kCalls) : kCalls[i].answer = "ok"

----------------------------------------------------------------------------
(* Deployment diagnosis: claims C21, C23, C26, C28 *)

\* the invocation held a Target and has ended, by a return or by an exception
DiagEnded == dpc \in {"done", "raised"} /\ dLocals.context # 0

\* the last three lines of the report are the summary of the window
EndsWithSummary ==
    /\ Len(dResult) >= 3
    /\ SubSeq(dResult, Len(dResult) - 2, Len(dResult))
          = SummarySection(dLocals.windowMinutes, dLocals.deployTime)

\* C21 (as claimed): every diagnose_deployment invocation returns a report
\* whose last part is the fixed summary naming the analysed window and
\* correlate_events, for every deployment index and every deployment record.
C21_AlwaysEndsWithSummary == DiagEnded => dpc = "done" /\ EndsWithSummary

\* the three sources of a diagnosis: the local constant holding the result, the
\* header of its section and the "none" marker of the section
DiagSources ==
    { [result |-> "platformLogs", header |-> "### Platform Events (", unit |-> " events)",
       none |-> <<"_No platform events found in this window._">>],
      [result |-> "consoleLogs", header |-> "### Application Logs (", unit |-> " entries)",
       none |-> <<"_No console output in this window._">>],
      [result |-> "httpLogs", header |-> "### First HTTP Requests (", unit |-> " requests)",
       none |-> <<"_No HTTP requests in this window (app may not have received traffic yet)._">>] }

\* C23: once the first structured query is sent the invocation never ends in an
\* exception or short of the third query, whatever the queries answer; the
\* report then has for each source one header giving the number of rows of
\* that source's own result, directly followed by the "none" marker when the
\* source's query failed, and it ends with the summary.
C23_FailedSourceDoesNotAbort ==
    /\ dQueries # <<>> /\ dpc \in {"done", "raised"} => DiagClassified
    /\ DiagClassified =>
          /\ EndsWithSummary
          /\ \A source \in DiagSources :
                \E i \in 1..(Len(dResult) - 1) :
                    /\ LinesStarting(source.header) = {i}
                    /\ dResult[i] = <<source.header,
                                      ToString(Len(dLocals[source.result].rows)), source.unit>>
                    /\ ~dLocals[source.result].success => dResult[i + 1] = source.none

\* the platform query failed and the two other sections report their rows
C23_Witness ==
    /\ DiagClassified
    /\ ~dLocals.platformLogs.success
    /\ Len(dLocals.consoleLogs.rows) > 0
    /\ Len(dLocals.httpLogs.rows) > 0
    /\ \E i \in 1..Len(dResult) : dResult[i] = <<"**Application errors:**">>
    /\ \E i \in 1..Len(dResult) : dResult[i] = <<"**HTTP 5xx errors:** ", "1">>

\* C26 (as claimed): every structured query of a diagnosis is written for the
\* window [deployTime, deployTime + w] and, when query() sends it, the time span
\* sent with it leaves out no part of that window up to the time of the query,
\* however long before the invocation the deployment started.
C26_WindowDispatched ==
    \A i \in 1..Len(dQueries) :
        /\ dQueries[i].from = dLocals.deployTime
        /\ dQueries[i].to = dLocals.deployTime + dLocals.windowMinutes * 60 * 1000
        /\ dQueries[i].dispatched =>
              /\ dQueries[i].startTime <= dQueries[i].from
              /\ dQueries[i].to <= dQueries[i].endTime \/ dQueries[i].endTime = now

\* the one-line answer for an index without a deployment
NoDeploymentMessage ==
    <<<<"Error: No deployment found at index ", ToString(dLocals.deploymentIndex), ". Only ",
        ToString(Len(dLocals.deployments)), " deployments available.">>>>

\* C28 (as claimed): an invocation with index i that was given more than i
\* deployments (i >= 0) diagnoses the (i+1)-th of them; for every other index,
\* an index past the end, a negative one, or a history that could not be
\* fetched, it returns the message naming the index and the number of
\* deployments, sends no structured query and no Kudu request, and raises
\* nothing.
C28_IndexChecked ==
    DiagEnded =>
        /\ dpc = "done"
        /\ IF 0 <= dLocals.deploymentIndex
              /\ dLocals.deploymentIndex < Len(dLocals.deployments)
           THEN /\ Len(dResult) >= 5
                /\ dResult[2] = <<"**Deployment:** ">>
                      \o toISOString(DeployTime(dLocals.deployments[dLocals.deploymentIndex + 1]))
           ELSE /\ dResult = NoDeploymentMessage
                /\ dQueries = <<>>
                /\ kpc = "idle"

----------------------------------------------------------------------------
(* KuduConnector.getRecentLogs: claims C27 and C30 *)

\* a text was fetched, from the live stream or from the on-disk log
TextFetched == AnswerTo("fetch") = "ok" \/ AnswerTo("readLogFile") = "ok"

\* s is the end of t
IsSuffix(s, t) ==
    /\ Len(s) <= Len(t)
    /\ \A i \in 1..Len(s) : s[i] = t[Len(t) - Len(s) + i]

\* C27 (as claimed): for every maxLines >= 0 the call returns at most maxLines
\* entries, on the live-stream path and on the on-disk path alike, and with no
\* filter and a text within the byte cap the entries are the last non-blank
\* lines of the fetched text in their order.
C27_AtMostMaxLines ==
    KuduReturned =>
        /\ Len(kResult.entries) <= kArgs.maxLines
        /\ TextFetched /\ kArgs.filter = NoFilter /\ Length(kRead) <= LOG_FILE_MAX_BYTES =>
              IsSuffix(ReturnedContents, SelectSeq(Split(kRead), NotBlank))

\* the live-stream attempt is over: the call waits for the on-disk tier or has returned
LiveStreamOver == kpc \in {"awaitFiles", "awaitRead", "returned"}

\* C30: the on-disk log is listed exactly when the live-stream attempt failed
\* or gave no entry (no descriptor, or a text without a non-blank line), and it
\* is read only after it was listed; a live stream with an entry keeps the call
\* from the on-disk tier even when the filter then removes every entry.
C30_FallbackIffNoLiveEntries ==
    LiveStreamOver =>
        /\ AnswerTo("listLogFiles") # "none" <=> AnswerTo("fetch") # "ok"
        /\ AnswerTo("readLogFile") # "none" => AnswerTo("listLogFiles") \in {"ok"}

\* the live stream had an entry, the filter removed it, nothing was listed
C30_Witness ==
    /\ KuduReturned
    /\ AnswerTo("fetch") = "ok"
    /\ kArgs.filter # NoFilter
    /\ kResult.success /\ kResult.entries = <<>>
    /\ AnswerTo("listLogFiles") = "none"

----------------------------------------------------------------------------
(* Session cache and Target replacement: claim C29, checked under SpecCtx *)

\* the identifier the workspace of the app's destination translates to
IdentifierOf(app) == CustomerId(WorkspacePath(app))

\* C29 (as claimed): an identifier held by a context object is the identifier
\* its own Target resolves to, also when set_context replaces the Target while
\* a resolution started for the previous Target awaits the metadata backend;
\* and every structured query of an invocation is sent to the workspace of the
\* Target the invocation holds.
C29_CacheBelongsToTarget ==
    /\ \A c \in 1..Len(heap) :
          Truthy(heap[c].logAnalyticsWorkspaceId) =>
              heap[c].logAnalyticsWorkspaceId = IdentifierOf(heap[c].appName)
    /\ \A i \in 1..Len(inv) :
          Truthy(inv[i].queried) => inv[i].queried = IdentifierOf(heap[inv[i].ctx].appName)

----------------------------------------------------------------------------
(* The call handler and executeTool, unnamed/part_003:41-71 and
   tools/index.ts:721-1189: one tool call at a time, split at its awaits *)

\* tool calls the server is sent
MaxToolCalls == 1

\* instants, ms after 2024-01-15T00:00:00Z
Clock1030 == (10 * 60 + 30) * 60 * 1000
ToolClock == Clock1030 + 30 * 60 * 1000

\* the names a call can carry with the arguments it is tried on
\* (diagnose_deployment has its own actions above)
ToolInputs ==
    { <<"get_context", EmptyArgs>>,
      <<"set_context", [subscriptionId |-> "subB", resourceGroup |-> "rgB", appName |-> "appB"]>>,
      <<"list_apps", EmptyArgs>>,
      <<"get_app_info", EmptyArgs>>,
      <<"check_diagnostics", EmptyArgs>>,
      <<"query_logs", [query |-> <<"T">>]>>,
      <<"query_logs", [query |-> <<"T">>, timeRangeMinutes |-> maxMinutes + 1]>>,
      <<"get_recent_logs", EmptyArgs>>,
      <<"get_recent_logs", [maxLines |-> 2]>>,
      <<"get_http_errors", EmptyArgs>>,
      <<"get_slow_requests", [minutes |-> 30]>>,
      <<"get_deployments", EmptyArgs>>,
      <<"get_restarts", EmptyArgs>>,
      <<"get_restarts", [hours |-> 1]>>,
      <<"summarize_errors", EmptyArgs>>,
      <<"correlate_events", [timestamp |-> Clock1030]>>,
      <<"correlate_events", [timestamp |-> Clock1030 - 60 * 60 * 1000, windowMinutes |-> 10]>>,
      <<"correlate_events", EmptyArgs>>,
      <<"check_logging_setup", EmptyArgs>>,
      <<"no_such_tool", EmptyArgs>> }

\* the tools that start with requireAppContext()
ContextTools ==
    {"get_app_info", "check_diagnostics", "query_logs", "get_recent_logs", "get_http_errors",
     "get_slow_requests", "get_deployments", "get_restarts", "summarize_errors",
     "correlate_events", "check_logging_setup"}

\* the tools that call getWorkspaceId
ResolverTools ==
    {"query_logs", "get_http_errors", "get_slow_requests", "get_restarts",
     "summarize_errors", "correlate_events"}

NoResponse == [text |-> <<>>, isError |-> FALSE]

\* a call as the handler received it
ToolCall(tool, args) ==
    [tool |-> tool, args |-> args,
     pc |-> "start",             \* "awaitArm", "awaitDiag", "awaitResolve", "awaitQuery",
                                 \* "awaitKudu", "done"
     ctx |-> 0,                  \* the context object requireAppContext returned
     resolver |-> FALSE,         \* getWorkspaceId was called
     workspaceId |-> Undefined,  \* what getWorkspaceId returned
     diag |-> NoDiag,
     queries |-> <<>>,           \* the calls made to LogAnalyticsConnector
     kudu |-> <<>>,              \* the calls made to KuduConnector.getRecentLogs
     raised |-> <<>>,            \* the message of the exception that left executeTool
     response |-> NoResponse]    \* what the handler returned

\* the exception let out of the handler
RethrowToolError(r, message) == [r EXCEPT !.pc = "threw", !.raised = message]

\* part_003:61-71: the catch block of the handler
CatchToolError(r, message) ==
    [r EXCEPT !.pc = "done", !.raised = message,
              !.response = [text |-> <<"Error: ">> \o message, isError |-> TRUE]]

\* part_003:50-60: executeTool returned result
ReturnToolResult(r, result) ==
    [r EXCEPT !.pc = "done", !.response = [text |-> result, isError |-> FALSE]]

NotConfigured == "Error: Log Analytics not configured."

\* the answer of a resolver tool that has no workspace identifier and asks
\* nobody else (tools/index.ts:796-798, 821-823, 834-836, 872-874, 885-887)
NotConfiguredMessage(tool) ==
    CASE tool = "query_logs" ->
            <<NotConfigured, " Use check_diagnostics to see status.",
              "Fallback: Use get_recent_logs for Kudu container logs.">>
      [] tool = "get_http_errors" ->
            <<NotConfigured, " HTTP error analysis requires diagnostic settings.">>
      [] tool = "summarize_errors" ->
            <<NotConfigured, " Error analysis requires diagnostic settings.">>
      [] OTHER -> <<NotConfigured>>

\* (args.hours as number) * 60 || 24 * 60
HoursOr(args) == IF ArgOr(args, "hours", 0) # 0 THEN args.hours * 60 ELSE 24 * 60

\* the call a resolver tool makes with a workspace identifier: the window its
\* query text selects and the timeRangeMinutes it passes to query()
\* (tools/index.ts:799-803, 824-827, 837-841, 855-858, 875-878, 889-899)
ToolQuery(r, workspaceId) ==
    LET ago(minutes) == DiagQuery(workspaceId, r.tool, now - minutes * 60 * 1000, now, minutes)
    IN  CASE r.tool = "query_logs" ->
                DiagQuery(workspaceId, r.tool, 0, now, ArgOr(r.args, "timeRangeMinutes", 60))
          [] r.tool = "get_http_errors" -> ago(ArgOr(r.args, "minutes", 60))
          [] r.tool = "get_slow_requests" -> ago(ArgOr(r.args, "minutes", 60))
          [] r.tool = "get_restarts" -> ago(HoursOr(r.args))
          [] r.tool = "summarize_errors" -> ago(HoursOr(r.args))
          [] r.tool = "correlate_events" ->
                LET windowMs == ArgOr(r.args, "windowMinutes", 5) * 60 * 1000
                IN  DiagQuery(workspaceId, r.tool, r.args.timestamp - windowMs,
                              r.args.timestamp + windowMs, 60)

\* a structured query sent whether or not there is an identifier
AfterGetWorkspaceIdQueries(r, workspaceId) ==
    IF r.tool = "correlate_events" /\ "timestamp" \notin DOMAIN r.args
    THEN CatchToolError([r EXCEPT !.workspaceId = workspaceId], <<"Invalid time value">>)
    ELSE [r EXCEPT !.workspaceId = workspaceId, !.pc = "awaitQuery",
                   !.queries = <<ToolQuery(r, workspaceId)>>]

\* a resolver tool once getWorkspaceId has returned workspaceId
AfterGetWorkspaceId(r, workspaceId) ==
    IF ~Truthy(workspaceId)
    THEN IF r.tool = "get_restarts"
         THEN [r EXCEPT !.workspaceId = workspaceId, !.pc = "awaitKudu",
                        !.kudu = <<[maxLines |-> 200, filter |-> NoFilter]>>]
         ELSE ReturnToolResult([r EXCEPT !.workspaceId = workspaceId],
                               NotConfiguredMessage(r.tool))
    ELSE IF r.tool = "correlate_events" /\ "timestamp" \notin DOMAIN r.args
    THEN \* new Date(undefined).toISOString() throws
         CatchToolError([r EXCEPT !.workspaceId = workspaceId], <<"Invalid time value">>)
    ELSE [r EXCEPT !.workspaceId = workspaceId, !.pc = "awaitQuery",
                   !.queries = <<ToolQuery(r, workspaceId)>>]

\* executeTool up to its first await, for a call that holds context object ctx
\* of heap h (0 when the tool asked for none)
StartTool(r, ctx, h) ==
    LET c == [r EXCEPT !.ctx = ctx]
    IN  CASE r.tool = "get_context" ->
                ReturnToolResult(c, IF ctx = 0 THEN <<"No App Service configured.">>
                                    ELSE <<"**Current App Service**", h[ctx].appName>>)
          [] r.tool = "set_context" ->
                ReturnToolResult(c, <<"Context set to ", r.args.appName>>)
          [] r.tool = "list_apps" ->
                IF ctx = 0
                THEN ReturnToolResult(c, <<"Error: No subscription ID provided and no context set.">>)
                ELSE [c EXCEPT !.pc = "awaitArm"]
          [] r.tool \in {"get_app_info", "get_deployments", "check_logging_setup"} ->
                [c EXCEPT !.pc = "awaitArm"]
          [] r.tool = "check_diagnostics" -> [c EXCEPT !.pc = "awaitDiag"]
          [] r.tool = "get_recent_logs" ->
                [c EXCEPT !.pc = "awaitKudu",
                          !.kudu = <<[maxLines |-> ArgOr(r.args, "maxLines", 100),
                                      filter |-> NoFilter]>>]
          [] r.tool \in ResolverTools ->
                IF Truthy(h[ctx].logAnalyticsWorkspaceId)
                THEN AfterGetWorkspaceId([c EXCEPT !.resolver = TRUE],
                                         h[ctx].logAnalyticsWorkspaceId)
                ELSE [c EXCEPT !.resolver = TRUE, !.pc = "awaitDiag"]
          [] OTHER -> ReturnToolResult(c, <<"Unknown tool: ", r.tool>>)

CredentialsError == <<"Failed to initialize Azure credentials. Make sure you are logged in">>

\* part_003:41-52 and tools/index.ts:721-730: the handler is called; the three
\* connectors are built (the LogAnalyticsConnector asks for the credential,
\* log-analytics.ts:31-33, auth.ts:22-36), then the tool's case starts
CallTool(tool, args, credential) ==
    /\ Len(inv) < MaxToolCalls
    /\ LET r == ToolCall(tool, args)
           asks == tool \in ContextTools \cup {"get_context", "list_apps"}
           ctx == IF asks THEN getAppContext ELSE 0
       IN  IF ~credential
           THEN /\ inv' = Append(inv, CatchToolError(r, CredentialsError))
                /\ UNCHANGED <<heap, currentContext>>
           ELSE IF tool = "set_context"
           THEN /\ heap' = Append(heap, NewContext(args.subscriptionId, args.resourceGroup,
                                                   args.appName))
                /\ currentContext' = Len(heap) + 1
                /\ inv' = Append(inv, StartTool(r, Len(heap) + 1, heap'))
           ELSE /\ heap' = IF asks THEN getAppContextHeap ELSE heap
                /\ currentContext' = IF asks THEN getAppContext ELSE currentContext
                /\ inv' = Append(inv,
                      IF tool \in ContextTools /\ ctx = 0
                      THEN CatchToolError(r, <<"No App Service configured.">>)
                      ELSE StartTool(r, ctx, heap'))
    /\ UNCHANGED <<now, qvars, kvars, dvars, env, diagSettings>>

\* listApps, getAppInfo or getDeployments answered (arm.ts:38-84, 157-178; the
\* first two rethrow a backend failure, the third answers [])
ToolArmAnswered(i, failed) ==
    /\ inv[i].pc = "awaitArm"
    /\ inv' = [inv EXCEPT ![i] =
          CASE @.tool = "list_apps" ->
                  IF failed THEN CatchToolError(@, <<"Failed to list apps: ", "RestError">>)
                  ELSE ReturnToolResult(@, <<"**App Service Apps**">>)
            [] @.tool = "get_app_info" ->
                  IF failed THEN CatchToolError(@, <<"Failed to get app info: ", "RestError">>)
                  ELSE ReturnToolResult(@, <<"formatAppInfo">>)
            [] @.tool = "get_deployments" -> ReturnToolResult(@, <<"formatDeployments">>)
            [] @.tool = "check_logging_setup" ->
                  IF failed THEN CatchToolError(@, <<"Failed to get app info: ", "RestError">>)
                  ELSE [@ EXCEPT !.pc = "awaitDiag"]]
    /\ UNCHANGED <<now, qvars, kvars, dvars, env, heap, currentContext, diagSettings>>

\* getDiagnosticSettings answered: tools/index.ts:776-789, 1063-1064, 1201-1210
ToolDiagAnswered(i) ==
    /\ inv[i].pc = "awaitDiag"
    /\ \E diag \in getDiagnosticSettings(heap[inv[i].ctx]) :
          CASE inv[i].tool = "check_logging_setup" ->
                  /\ inv' = [inv EXCEPT ![i] =
                                ReturnToolResult([@ EXCEPT !.diag = diag],
                                                 <<"## Logging Setup Check">>)]
                  /\ UNCHANGED heap
            [] inv[i].tool = "check_diagnostics" ->
                  IF diag.logAnalyticsWorkspaceId # NoPath
                  THEN /\ inv' = [inv EXCEPT ![i].diag = diag, ![i].pc = "awaitResolve"]
                       /\ UNCHANGED heap
                  ELSE /\ heap' = updateDiagnosticInfo(heap, currentContext, Undefined,
                                                       Bool(FALSE))
                       /\ inv' = [inv EXCEPT ![i] =
                                     ReturnToolResult([@ EXCEPT !.diag = diag],
                                                      <<"formatDiagnosticInfo">>)]
            [] OTHER ->
                  /\ inv' = [inv EXCEPT ![i] =
                                IF ~diag.enabled \/ diag.logAnalyticsWorkspaceId = NoPath
                                THEN AfterGetWorkspaceId([@ EXCEPT !.diag = diag], Null)
                                ELSE [@ EXCEPT !.diag = diag, !.pc = "awaitResolve"]]
                  /\ UNCHANGED heap
    /\ UNCHANGED <<now, qvars, kvars, dvars, env, currentContext, diagSettings>>

\* resolveWorkspaceId answered: tools/index.ts:780-789, 1207-1216
ToolResolved(i) ==
    /\ inv[i].pc = "awaitResolve"
    /\ \E workspaceGuid \in resolveWorkspaceId(inv[i].diag.logAnalyticsWorkspaceId) :
          IF inv[i].tool = "check_diagnostics"
          THEN /\ heap' = updateDiagnosticInfo(heap, currentContext,
                              IF Truthy(workspaceGuid) THEN workspaceGuid ELSE Undefined,
                              Bool(inv[i].diag.enabled))
               /\ inv' = [inv EXCEPT ![i] = ReturnToolResult(@, <<"formatDiagnosticInfo">>)]
          ELSE /\ heap' = IF Truthy(workspaceGuid)
                          THEN updateDiagnosticInfo(heap, currentContext, workspaceGuid,
                                                    Bool(TRUE))
                          ELSE heap
               /\ inv' = [inv EXCEPT ![i] = AfterGetWorkspaceId(@, workspaceGuid)]
    /\ UNCHANGED <<now, qvars, kvars, dvars, env, currentContext, diagSettings>>

\* the LogAnalyticsConnector call returned its result (it never throws)
ToolQueryAnswered(i, success) ==
    /\ inv[i].pc = "awaitQuery"
    /\ success => inv[i].queries[1].dispatched
    /\ inv' = [inv EXCEPT ![i] =
          ReturnToolResult(@, <<IF @.tool \in {"get_http_errors", "summarize_errors"}
                                THEN "formatErrorSummary" ELSE "formatLogQueryResult",
                                IF success THEN "rows" ELSE "error">>)]
    /\ UNCHANGED <<now, qvars, kvars, dvars, env, heap, currentContext, diagSettings>>

\* kudu.getRecentLogs returned its result (it never throws)
ToolKuduAnswered(i, success) ==
    /\ inv[i].pc = "awaitKudu"
    /\ inv' = [inv EXCEPT ![i] =
          ReturnToolResult(@, <<"formatKuduLogs", IF success THEN "entries" ELSE "error">>
                              \o IF @.tool = "get_restarts"
                                 THEN <<"_Note: Full restart history requires Log Analytics._">>
                                 ELSE <<>>)]
    /\ UNCHANGED <<now, qvars, kvars, dvars, env, heap, currentContext, diagSettings>>

\* a server that has no Target, or one for appA with or without its identifier
InitTools ==
    /\ now = ToolClock
    /\ qpc = "idle"
    /\ qArgs = [workspaceId |-> "", kqlQuery |-> <<>>, timeRangeMinutes |-> 0]
    /\ qStart = 0
    /\ qCalls = <<>>
    /\ qAnswer = NoAnswer
    /\ qResult = NoResult
    /\ KuduIdle
    /\ DiagIdle
    /\ env \in Envs
    /\ \/ /\ heap = <<>> /\ currentContext = 0
          /\ diagSettings \in {[a \in Apps |-> <<>>],
                               [a \in Apps |-> <<[workspaceId |-> WorkspacePath(a)]>>]}
       \/ /\ heap = <<[NewContext("subA", "rgA", "appA") EXCEPT
                          !.logAnalyticsWorkspaceId = "guidA",
                          !.diagnosticsEnabled = Bool(TRUE)]>>
          /\ currentContext = 1
          /\ diagSettings = [a \in Apps |-> <<[workspaceId |-> WorkspacePath(a)]>>]
    /\ inv = <<>>

NextTools ==
    \/ \E input \in ToolInputs, credential \in BOOLEAN : CallTool(input[1], input[2], credential)
    \/ \E i \in 1..Len(inv), failed \in BOOLEAN : ToolArmAnswered(i, failed)
    \/ \E i \in 1..Len(inv) : ToolDiagAnswered(i)
    \/ \E i \in 1..Len(inv) : ToolResolved(i)
    \/ \E i \in 1..Len(inv), success \in BOOLEAN : ToolQueryAnswered(i, success)
    \/ \E i \in 1..Len(inv), success \in BOOLEAN : ToolKuduAnswered(i, success)

SpecTools == InitTools /\ [][NextTools]_vars

----------------------------------------------------------------------------
(* Tool calls through the handler: claims C22, C24 and C25 *)

\* the calls of tool that reached the structured backend connector
Correlations == {i \in 1..Len(inv) : inv[i].tool = "correlate_events" /\ inv[i].queries # <<>>}

\* C22: timestamp correlation for an instant t and a radius r (5 minutes when
\* none is given) sends one combined query whose text selects [t - r, t + r],
\* and the time span sent with the query leaves out no part of that window,
\* for every t.
C22_CorrelateWindow ==
    \A i \in Correlations :
        LET t == inv[i].args.timestamp
            r == (IF "windowMinutes" \in DOMAIN inv[i].args THEN inv[i].args.windowMinutes ELSE 5)
                     * 60 * 1000
            q == inv[i].queries[1]
        IN  /\ Len(inv[i].queries) = 1
            /\ q.from = t - r
            /\ q.to = t + r
            /\ q.startTime <= q.from
            /\ q.to <= q.endTime

\* the window the query text selects is [t - r, t + r]
C22_TextWindow ==
    \A i \in Correlations :
        inv[i].args.timestamp = Clock1030 /\ "windowMinutes" \notin DOMAIN inv[i].args
            => /\ inv[i].queries[1].from = Clock1030 - 5 * 60 * 1000
               /\ inv[i].queries[1].to = Clock1030 + 5 * 60 * 1000

\* the steps that answer an await of call i
ToolAnswered(i) ==
    \/ \E failed \in BOOLEAN : ToolArmAnswered(i, failed)
    \/ ToolDiagAnswered(i)
    \/ ToolResolved(i)
    \/ \E success \in BOOLEAN : ToolQueryAnswered(i, success) \/ ToolKuduAnswered(i, success)

\* C24: no tool call lets an exception out of the handler: every call is in
\* the tool, at one of its awaits, or has been answered with a response; an
\* exception raised inside the tool is answered with an error response that
\* carries its message, and a returned result with a response that is no error;
\* a call at an await can always go on.
C24_NothingEscapes ==
    \A i \in 1..Len(inv) :
        /\ inv[i].pc \in {"awaitArm", "awaitDiag", "awaitResolve", "awaitQuery", "awaitKudu", "done"}
        /\ inv[i].pc = "done" =>
              /\ inv[i].response.text # <<>>
              /\ inv[i].raised # <<>> =>
                    /\ inv[i].response.isError
                    /\ inv[i].response.text = <<"Error: ">> \o inv[i].raised
              /\ inv[i].raised = <<>> => ~inv[i].response.isError
        /\ inv[i].pc # "done" =>
              /\ inv[i].raised = <<>> /\ inv[i].response = NoResponse
              /\ ENABLED ToolAnswered(i)

\* the three failures the tools raise have each been answered
C24_Witness ==
    /\ Len(inv) = 1
    /\ inv[1].pc = "done"
    /\ inv[1].response.isError
    /\ inv[1].tool = "get_app_info"
    /\ inv[1].raised = <<"Failed to get app info: ", "RestError">>

C24_WitnessNoTarget ==
    /\ Len(inv) = 1
    /\ inv[1].response = [text |-> <<"Error: ", "No App Service configured.">>, isError |-> TRUE]

C24_WitnessNoCredential ==
    /\ Len(inv) = 1
    /\ inv[1].tool = "no_such_tool"
    /\ inv[1].response = [text |-> <<"Error: ">> \o CredentialsError, isError |-> TRUE]

C24_WitnessUnknownTool ==
    /\ Len(inv) = 1
    /\ inv[1].response = [text |-> <<"Unknown tool: ", "no_such_tool">>, isError |-> FALSE]

\* the call got no identifier from the resolver
Unresolved(r) == r.resolver /\ r.pc \notin {"start", "awaitDiag", "awaitResolve"} /\ ~Truthy(r.workspaceId)

\* C25: a call of query_logs, get_http_errors, get_slow_requests,
\* summarize_errors or correlate_events for which no identifier is resolved
\* returns a "Log Analytics not configured" message and sends no structured
\* query; get_restarts then asks the Kudu connector instead; get_recent_logs
\* and get_deployments never call the resolver.
C25_NoIdentifierNoQuery ==
    \A i \in 1..Len(inv) :
        LET r == inv[i]
        IN  /\ r.tool \in ResolverTools \ {"get_restarts"} /\ Unresolved(r) =>
                  /\ r.pc = "done"
                  /\ r.queries = <<>> /\ r.kudu = <<>>
                  /\ r.response.text[1] = NotConfigured
                  /\ ~r.response.isError
            /\ r.tool = "get_restarts" /\ Unresolved(r) =>
                  /\ r.queries = <<>>
                  /\ r.kudu = <<[maxLines |-> 200, filter |-> NoFilter]>>
                  /\ r.pc = "done" => r.response.text[1] = "formatKuduLogs"
            /\ r.tool \in {"get_recent_logs", "get_deployments"} =>
                  /\ ~r.resolver
                  /\ r.queries = <<>>
                  /\ r.diag = NoDiag
            /\ r.queries # <<>> => Truthy(r.workspaceId)

\* get_restarts answered from Kudu after the resolver found nothing
C25_Witness ==
    /\ Len(inv) = 1
    /\ inv[1].tool = "get_restarts"
    /\ Unresolved(inv[1])
    /\ inv[1].pc = "done"
    /\ inv[1].response.text[1] = "formatKuduLogs"

C25_WitnessMessage ==
    \E i \in 1..Len(inv) :
        /\ inv[i].tool = "correlate_events"
        /\ Unresolved(inv[i])
        /\ inv[i].response.text = <<NotConfigured>>

C25_WitnessKuduTool ==
    \E i \in 1..Len(inv) :
        /\ inv[i].tool = "get_recent_logs"
        /\ inv[i].pc = "done"
        /\ inv[i].response.text = <<"formatKuduLogs", "entries">>

====
